---- MODULE Spec2Model ----
(***************************************************************************)
(* A model of zsh_history_cleaner: the scan of the history file into       *)
(* command blocks (HistoryCleaner::processHistory), the per-block deletion *)
(* decision (processCommandBlock), the commit (temp file, backup,          *)
(* secureDelete of the original, rename) and the termination-signal        *)
(* handler.                                                                *)
(*                                                                         *)
(* A file is a sequence of bytes.  The bytes of the model are the atoms    *)
(*   "NL"  the newline,            "CR"  the carriage return,              *)
(*   "x"   one byte of plain text: no blank, no digit, no ':' or ';',      *)
(*   "h1"  the text ": 1:0;"  (a history header, timestamp 1),             *)
(*   "h2"  the text ": 2:0;"  (a history header, timestamp 2),             *)
(*   "#"   one byte written by an overwrite pass of secureDelete,          *)
(*   "sp"  one blank,                                                      *)
(*   "hBig" a header whose timestamp digits overflow long long,            *)
(*   "hPrev", "hMid", "hEod", "hNext", "hAt"  headers whose timestamps are *)
(*         instants named after the run's --date (see Stoll).              *)
(* Time is in epoch seconds; a calendar date is its day number, a time of  *)
(* day its second of the day.                                              *)
(* Every file system call whose failure the code tests has both outcomes.  *)
(***************************************************************************)
EXTENDS Integers, Sequences, FiniteSets, TLC

\* ---------------------------------------------------------------- bounds
MaxLen == 3
\* the lines of the files of the dry runs that report records
MaxLines == 4

\* ------------------------------------------------------------- constants
SHRED_BUFFER_SIZE == 4096
\* std::numeric_limits<std::time_t>::max(), scaled to TLC's integers
TIME_MAX == 2147483647
SIGHUP == 1
SIGINT == 2
SIGTERM == 15
Signals == {SIGINT, SIGTERM, SIGHUP}

InputBytes == {"NL", "CR", "x", "h1", "h2"}

RECURSIVE SeqsUpTo(_, _)
SeqsUpTo(S, n) ==
    IF n = 0 THEN {<<>>}
    ELSE LET shorter == SeqsUpTo(S, n - 1)
         IN  shorter \cup {Append(s, b) : s \in {t \in shorter : Len(t) = n - 1}, b \in S}

RECURSIVE Concat(_)
Concat(ss) == IF ss = <<>> THEN <<>> ELSE Head(ss) \o Concat(Tail(ss))

\* a date string: its calendar day and its time of day, sec = -1 when the string
\* has no time component; NoDate is the empty string
NoDate == [day |-> -1, sec |-> -1]
\* a string that is not empty and that no format matches
Unparsable == [day |-> -2, sec |-> -1]
DateOnly(d) == [day |-> d, sec |-> -1]
DateTime(d, s) == [day |-> d, sec |-> s]

\* the mode settings of the runs: --mode all, and --mode before --precise with
\* --date "1970-01-01 00:00:01"
ModeSettings ==
    {[mode |-> "ALL_TIME", date |-> NoDate, precise |-> FALSE],
     [mode |-> "BEFORE", date |-> DateTime(0, 1), precise |-> TRUE]}
\* the pass counts of the runs (--passes)
PassCounts == {1, 2}
\* the keyword lists of the runs
KeywordLists == {<<>>, << <<"x">> >>}

\* ------------------------------------------------------------- variables
VARIABLES
    dryRun_, doBackup_, shredPasses_, startTimestamp_, endTimestamp_, filterKeywords_,
    filterRegexes_, mode_, specificDateStr_, startDateStr_, endDateStr_, olderThanDays_,
    preciseTime_, now,
    hist, temp, backup, obscure,
    hist0,
    pc, proc, exitCode, g_cleaner_instance, interrupted_,
    tempFilePath_, backupFilePath_,
    historyIn, lineNum, keptCount, deletedCount, currentCommandBlock, keptEntries,
    output, reported, writeIdx, tempOpen,
    sdPass, sdAt, bytesWritten, sdRet, phRet,
    errs,
    isInit, disposition, handlers, inAllocator, flagWrites, cleanupRuns,
    appended, grown, invocation

options == <<dryRun_, doBackup_, shredPasses_, filterKeywords_, filterRegexes_, mode_,
             specificDateStr_, startDateStr_, endDateStr_, olderThanDays_, preciseTime_, now,
             hist0>>
\* the signal state of the process: whether it is the init process of its PID
\* namespace, the disposition of each signal, the handler invocations on the
\* stack, whether they interrupted the allocator or a stream operation, and how
\* often line 119 and the handler's cleanup() ran
sigv == <<isInit, disposition, handlers, inAllocator, flagWrites, cleanupRuns>>
\* the other processes that write the history file (the shells that append
\* their commands to it): the bytes they appended to the path since the run
\* began, and how many of them since secureDelete read the size of the file;
\* and which invocation of the program this is, the first, or the second on the
\* file the first one left
envv == <<appended, grown, invocation>>
\* what no step of the main thread changes
settings == <<options, sigv, envv>>
config == <<settings, startTimestamp_, endTimestamp_>>
files  == <<hist, temp, backup, obscure>>
procv  == <<proc, exitCode, g_cleaner_instance, interrupted_>>
paths  == <<tempFilePath_, backupFilePath_>>
scanv  == <<historyIn, lineNum, keptCount, deletedCount, currentCommandBlock, keptEntries, output, reported>>
sdv    == <<sdPass, sdAt, bytesWritten, sdRet>>
vars   == <<config, files, procv, paths, scanv, sdv, pc, writeIdx, tempOpen, phRet, errs>>

NoFile == [kind |-> "none", data |-> <<>>]
File(d) == [kind |-> "regular", data |-> d]

\* what else a path can name: a symbolic link to a regular file (data: the bytes
\* of the file it points to), a symbolic link to nothing, a directory, and a
\* fifo, socket or device
Symlink(d) == [kind |-> "symlink", data |-> d]
Dangling == [kind |-> "dangling", data |-> <<>>]
Directory == [kind |-> "directory", data |-> <<>>]
Special == [kind |-> "special", data |-> <<>>]

\* fs::is_regular_file(p, ec) is fs::status(p, ec), which follows symbolic
\* links: a link to a regular file is a regular file, and a path whose status
\* names nothing (no file, a link to nothing) sets ec
is_regular_file(f) == f.kind \in {"regular", "symlink"}
status_not_found(f) == f.kind \in {"none", "dangling"}

\* ------------------------------------------------------------ local time
\* the seconds of a day
Day == 24 * 60 * 60

\* the time zone of the process: UTC in winter, one hour ahead between the instant
\* spring (01:00 UTC of day 2) and the instant fall (01:00 UTC of day 4)
Zone == [spring |-> 2 * Day + 3600, fall |-> 4 * Day + 3600, shift |-> 3600]

IsDst(t) == Zone.spring <= t /\ t < Zone.fall
UtcOffset(t) == IF IsDst(t) THEN Zone.shift ELSE 0

\* localtime_r: the calendar day, the second of the day and the DST flag of instant t
localtime_r(t) ==
    LET l == t + UtcOffset(t)
    IN  [tm_day |-> l \div Day, tm_sec |-> l % Day, tm_isdst |-> IF IsDst(t) THEN 1 ELSE 0]

\* mktime: a tm_isdst of 0 or 1 is taken at its word, the fields are read as
\* standard or as daylight time whatever the zone has at that time; a negative
\* tm_isdst lets the zone decide
mktime(tm) ==
    LET l == tm.tm_day * Day + tm.tm_sec
    IN  IF tm.tm_isdst = 1 THEN l - Zone.shift
        ELSE IF tm.tm_isdst = 0 THEN l
        ELSE IF IsDst(l - Zone.shift) THEN l - Zone.shift ELSE l

\* dateToEpoch(dateStr, precise): [ok |-> FALSE] when it throws
dateToEpoch_NeverThrows(dateStr, precise) ==
    [ok |-> TRUE, epoch |-> IF dateStr.day < 0 THEN 0 ELSE dateStr.day * Day]
dateToEpoch(dateStr, precise) ==
    IF dateStr.day < 0
    THEN [ok |-> FALSE, epoch |-> 0]                      \* no format matched
    ELSE IF dateStr.sec < 0 /\ precise
    THEN [ok |-> FALSE, epoch |-> 0]                      \* time component required
    ELSE LET t == [tm_day |-> dateStr.day,
                   tm_sec |-> IF dateStr.sec < 0 THEN 0 ELSE dateStr.sec,
                   tm_isdst |-> -1]
         IN  IF mktime(t) = -1 THEN [ok |-> FALSE, epoch |-> 0]
             ELSE [ok |-> TRUE, epoch |-> mktime(t)]

\* the tm of instant t with its time of day set to 23:59:59, tm_isdst as
\* localtime_r left it
EndOfDayTm(t) == [localtime_r(t) EXCEPT !.tm_sec = 23 * 3600 + 59 * 60 + 59]

\* ----------------------------------------------------------- header atoms
HeaderAtoms == {"h1", "h2", "hBig", "hPrev", "hMid", "hEod", "hNext", "hAt"}
\* the atoms the class \s takes
SpaceAtoms == {"CR", "sp"}

\* the instant at which the local clock shows second sec of calendar day day
LocalInstant(day, sec) ==
    CHOOSE t \in {day * Day + sec - Zone.shift, day * Day + sec} :
        localtime_r(t).tm_day = day /\ localtime_r(t).tm_sec = sec

\* std::stoll on the digits of the capture group (\d+) of a header atom: "hBig"
\* has more digits than long long holds and makes it throw std::out_of_range
StollThrows(b) == b = "hBig"
Stoll(b) ==
    LET D == specificDateStr_
    IN  CASE b = "h1" -> 1
          [] b = "h2" -> 2
          [] b = "hPrev" -> LocalInstant(D.day, 0) - 1        \* one second before
          [] b = "hMid"  -> LocalInstant(D.day, 0)            \* midnight of the date
          [] b = "hEod"  -> LocalInstant(D.day, Day - 1)      \* its 23:59:59
          [] b = "hNext" -> LocalInstant(D.day + 1, 0)        \* the next midnight
          [] b = "hAt"   -> LocalInstant(D.day, IF D.sec < 0 THEN 0 ELSE D.sec)

\* a pattern of --regex: the literal lit, anchored at the start (^lit) or not
Pattern(anchored, lit) == [anchored |-> anchored, lit |-> lit]

\* ------------------------------------------------------ parsing helpers
\* index of the first newline of s, 0 when there is none
FirstNL(s) ==
    IF \E i \in 1..Len(s) : s[i] = "NL"
    THEN CHOOSE i \in 1..Len(s) : s[i] = "NL" /\ \A j \in 1..(i - 1) : s[j] # "NL"
    ELSE 0

\* std::getline on a stream with unread bytes s (s # <<>>): the line without its
\* newline and the bytes left; a last line without newline is returned as a line
GetLine(s) ==
    LET n == FirstNL(s)
    IN  IF n = 0 THEN [line |-> s, rest |-> <<>>]
        ELSE [line |-> SubSeq(s, 1, n - 1), rest |-> SubSeq(s, n + 1, Len(s))]

\* if (!line.empty() && line.back() == '\r') line.pop_back();
StripCR_Keep(line) == line
StripCR(line) ==
    IF line # <<>> /\ line[Len(line)] = "CR" THEN SubSeq(line, 1, Len(line) - 1) ELSE line

\* position of the header atom when line matches  ^\s*:\s*(\d+):\d+\s*;.*$ ,
\* 0 when it does not: \s* takes leading blanks and carriage returns, '.' takes
\* any byte but a line terminator
HeaderPos(line) ==
    IF \E k \in 1..Len(line) :
          /\ line[k] \in HeaderAtoms
          /\ \A i \in 1..(k - 1) : line[i] \in SpaceAtoms
          /\ \A i \in (k + 1)..Len(line) : line[i] \notin {"CR", "NL"}
    THEN CHOOSE k \in 1..Len(line) :
          /\ line[k] \in HeaderAtoms
          /\ \A i \in 1..(k - 1) : line[i] \in SpaceAtoms
    ELSE 0

\* std::regex_match(line, match, historyEntryRegex_): (\d+) takes digits of any
\* number, also more than long long holds
historyEntryRegex_InRange(line) == HeaderPos(line) # 0 /\ ~StollThrows(line[HeaderPos(line)])
historyEntryRegex_(line) == HeaderPos(line) # 0

\* command.find(keyword) != npos
Contains(s, kw) ==
    \E i \in 0..(Len(s) - Len(kw)) : SubSeq(s, i + 1, i + Len(kw)) = kw

\* std::regex_search(command, regex)
regex_search(command, regex) ==
    IF regex.anchored
    THEN Len(regex.lit) <= Len(command) /\ SubSeq(command, 1, Len(regex.lit)) = regex.lit
    ELSE Contains(command, regex.lit)

\* the blanks ' ' and '\t' among the atoms
BlankAtoms == {"sp"}

\* command.erase(0, command.find_first_not_of(" \t"))
RECURSIVE TrimLeft(_)
TrimLeft(s) == IF s # <<>> /\ Head(s) \in BlankAtoms THEN TrimLeft(Tail(s)) ELSE s

\* processCommandBlock: TRUE when the block is to be deleted
ShouldDelete_NoEnd(block, start, end, keywords, regexes) ==
    LET firstLineEnd == FirstNL(block)
        firstLine == SubSeq(block, 1, firstLineEnd - 1)
        k == HeaderPos(firstLine)
        timestamp == Stoll(firstLine[k])
        command == TrimLeft(SubSeq(firstLine, k + 1, Len(firstLine)))
    IN  /\ firstLineEnd # 0
        /\ k # 0
        /\ ~StollThrows(firstLine[k])
        /\ timestamp >= start
        /\ \/ keywords = <<>> /\ regexes = <<>>
           \/ \E i \in 1..Len(keywords) : Contains(command, keywords[i])
           \/ \E i \in 1..Len(regexes) : regex_search(command, regexes[i])

ShouldDelete_OverflowWraps(block, start, end, keywords, regexes) ==
    LET firstLineEnd == FirstNL(block)
        firstLine == SubSeq(block, 1, firstLineEnd - 1)
        k == HeaderPos(firstLine)
        timestamp == IF StollThrows(firstLine[k]) THEN 1 ELSE Stoll(firstLine[k])
        command == TrimLeft(SubSeq(firstLine, k + 1, Len(firstLine)))
    IN  /\ firstLineEnd # 0
        /\ k # 0
        /\ timestamp >= start /\ timestamp <= end
        /\ \/ keywords = <<>> /\ regexes = <<>>
           \/ \E i \in 1..Len(keywords) : Contains(command, keywords[i])
           \/ \E i \in 1..Len(regexes) : regex_search(command, regexes[i])

ShouldDelete_KeywordsOnly(block, start, end, keywords, regexes) ==
    LET firstLineEnd == FirstNL(block)
        firstLine == SubSeq(block, 1, firstLineEnd - 1)
        k == HeaderPos(firstLine)
        timestamp == Stoll(firstLine[k])
        command == TrimLeft(SubSeq(firstLine, k + 1, Len(firstLine)))
    IN  /\ firstLineEnd # 0
        /\ k # 0
        /\ ~StollThrows(firstLine[k])
        /\ timestamp >= start /\ timestamp <= end
        /\ \/ keywords = <<>> /\ regexes = <<>>
           \/ \E i \in 1..Len(keywords) : Contains(command, keywords[i])

ShouldDelete_WholeBlock(block, start, end, keywords, regexes) ==
    LET firstLineEnd == FirstNL(block)
        firstLine == SubSeq(block, 1, firstLineEnd - 1)
        k == HeaderPos(firstLine)
        timestamp == Stoll(firstLine[k])
        command == TrimLeft(SubSeq(block, k + 1, Len(block)))
    IN  /\ firstLineEnd # 0
        /\ k # 0
        /\ ~StollThrows(firstLine[k])
        /\ timestamp >= start /\ timestamp <= end
        /\ \/ keywords = <<>> /\ regexes = <<>>
           \/ \E i \in 1..Len(keywords) : Contains(command, keywords[i])
           \/ \E i \in 1..Len(regexes) : regex_search(command, regexes[i])

ShouldDelete(block, start, end, keywords, regexes) ==
    LET firstLineEnd == FirstNL(block)
        firstLine == SubSeq(block, 1, firstLineEnd - 1)
        k == HeaderPos(firstLine)
        timestamp == Stoll(firstLine[k])
        command == TrimLeft(SubSeq(firstLine, k + 1, Len(firstLine)))
    IN  /\ firstLineEnd # 0
        /\ k # 0
        /\ ~StollThrows(firstLine[k])
        /\ timestamp >= start /\ timestamp <= end
        /\ \/ keywords = <<>> /\ regexes = <<>>
           \/ \E i \in 1..Len(keywords) : Contains(command, keywords[i])
           \/ \E i \in 1..Len(regexes) : regex_search(command, regexes[i])

processCommandBlock(block) ==
    ShouldDelete(block, startTimestamp_, endTimestamp_, filterKeywords_, filterRegexes_)

\* ------------------------------------------------------------------ Init
\* the object after its constructor, before run(): everything but the settings
\* and the history file
Zeroed ==
    /\ startTimestamp_ = 0 /\ endTimestamp_ = 0
    /\ hist0 = hist
    /\ temp = NoFile /\ backup = NoFile /\ obscure = NoFile
    /\ proc = "running" /\ exitCode = -1
    /\ interrupted_ = 0
    /\ tempFilePath_ = FALSE /\ backupFilePath_ = FALSE
    /\ historyIn = [open |-> FALSE, rest |-> <<>>]
    /\ lineNum = 0 /\ keptCount = 0 /\ deletedCount = 0
    /\ currentCommandBlock = <<>> /\ keptEntries = <<>>
    /\ output = <<>> /\ reported = <<>>
    /\ writeIdx = 1 /\ tempOpen = FALSE
    /\ sdPass = 0 /\ sdAt = "none" /\ bytesWritten = 0 /\ sdRet = "none"
    /\ phRet = "none"
    /\ errs = {}
    /\ handlers = <<>> /\ inAllocator = FALSE
    /\ flagWrites = 0 /\ cleanupRuns = 0
    /\ appended = <<>> /\ grown = 0 /\ invocation = 1

\* lines 52-53: the instance is registered and the handlers are installed
Fresh ==
    /\ Zeroed
    /\ g_cleaner_instance = TRUE
    /\ disposition = [signal \in Signals |-> "handler"]

\* run() starts with calculateTimestamps; an ordinary process
Constructed == Fresh /\ pc = "calc" /\ isInit = FALSE

\* the mode options of the command line
ModeIs(m) ==
    /\ mode_ = m.mode /\ specificDateStr_ = m.date /\ preciseTime_ = m.precise
    /\ startDateStr_ = NoDate /\ endDateStr_ = NoDate /\ olderThanDays_ = -1

\* the clock reading of nowEpoch(): noon of day 5
Nows == {5 * Day + 12 * 3600}

Init ==
    /\ dryRun_ \in BOOLEAN
    /\ doBackup_ \in BOOLEAN
    /\ shredPasses_ \in PassCounts
    /\ \E m \in ModeSettings : ModeIs(m)
    /\ now \in Nows
    /\ filterKeywords_ \in KeywordLists
    /\ filterRegexes_ = <<>>
    /\ hist \in {NoFile} \cup {File(d) : d \in SeqsUpTo(InputBytes, MaxLen)}
    /\ Constructed

\* ---- the runs that exercise the scan: preamble lines and overflowing headers
ScanBytes == {"NL", "x", "h1", "hBig"}
ScanFilters ==
    {[keywords |-> <<>>, regexes |-> <<>>],
     [keywords |-> << <<"x">> >>, regexes |-> <<>>]}

InitScan ==
    /\ dryRun_ \in BOOLEAN
    /\ doBackup_ = FALSE
    /\ shredPasses_ = 1
    /\ \E m \in ModeSettings : ModeIs(m)
    /\ now \in Nows
    /\ \E f \in ScanFilters : filterKeywords_ = f.keywords /\ filterRegexes_ = f.regexes
    /\ hist \in {File(d) : d \in SeqsUpTo(ScanBytes, MaxLen)}
    /\ Constructed

\* ---- the runs that exercise the filters: blanks, keywords and patterns, with
\* the window [0, 1] of BEFORE
FilterBytes == {"NL", "x", "sp", "h1", "h2"}
\* the --keyword and --regex lists of those runs
FilterSets ==
    {[keywords |-> <<>>, regexes |-> <<>>],
     [keywords |-> << <<"x">> >>, regexes |-> <<>>],
     [keywords |-> <<>>, regexes |-> << Pattern(TRUE, <<"x">>) >>],
     [keywords |-> << <<"sp", "x">> >>, regexes |-> << Pattern(TRUE, <<"x">>) >>]}

InitFilter ==
    /\ dryRun_ \in BOOLEAN
    /\ doBackup_ = FALSE
    /\ shredPasses_ = 1
    /\ ModeIs([mode |-> "BEFORE", date |-> DateTime(0, 1), precise |-> TRUE])
    /\ now \in Nows
    /\ \E f \in FilterSets : filterKeywords_ = f.keywords /\ filterRegexes_ = f.regexes
    /\ hist \in {File(d) : d \in SeqsUpTo(FilterBytes, MaxLen)}
    /\ Constructed

\* ---- the runs that exercise the windows of specific_day and before: a normal
\* day, the day the clocks go forward and the day they go back; a date alone, a
\* date with 00:00 and a date with 12:00; one record at a boundary of the date
WindowDays == {1, 2, 4}
DateInputs ==
    {DateOnly(d) : d \in WindowDays}
        \cup {DateTime(d, sec) : d \in WindowDays, sec \in {0, 12 * 3600}}
WindowAtoms == {"hPrev", "hMid", "hEod", "hNext", "hAt"}

InitWindow ==
    /\ dryRun_ \in BOOLEAN
    /\ doBackup_ = FALSE
    /\ shredPasses_ = 1
    /\ \E mode \in {"SPECIFIC_DAY", "BEFORE"}, date \in DateInputs, precise \in BOOLEAN :
          ModeIs([mode |-> mode, date |-> date, precise |-> precise])
    /\ now \in Nows
    /\ filterKeywords_ = <<>> /\ filterRegexes_ = <<>>
    /\ hist \in {File(<<a, "NL">>) : a \in WindowAtoms}
    /\ Constructed

\* ---- the runs of --mode between and --mode specific_day without --precise, on
\* the dates of InitWindow, given alone or with a time of day
InitBetween ==
    /\ dryRun_ \in BOOLEAN
    /\ doBackup_ = FALSE
    /\ shredPasses_ = 1
    /\ mode_ \in {"BETWEEN", "SPECIFIC_DAY"}
    /\ preciseTime_ = FALSE
    /\ specificDateStr_ \in IF mode_ = "SPECIFIC_DAY" THEN DateInputs ELSE {NoDate}
    /\ startDateStr_ \in IF mode_ = "BETWEEN" THEN DateInputs ELSE {NoDate}
    /\ endDateStr_ \in IF mode_ = "BETWEEN" THEN DateInputs ELSE {NoDate}
    /\ olderThanDays_ = -1
    /\ now \in Nows
    /\ filterKeywords_ = <<>> /\ filterRegexes_ = <<>>
    /\ hist \in {File(<<a, "NL">>) : a \in {"hMid", "hEod"}}
    /\ Constructed

\* ---- the runs that exercise the erase: files shorter than the buffer, of
\* exactly its size, one byte longer, and of two buffers and a byte; no byte is
\* a header, so the whole file is kept and the original is erased
EraseSizes == {1, SHRED_BUFFER_SIZE, SHRED_BUFFER_SIZE + 1, 2 * SHRED_BUFFER_SIZE + 1}

InitErase ==
    /\ dryRun_ = FALSE
    /\ doBackup_ \in BOOLEAN
    /\ shredPasses_ \in PassCounts
    /\ ModeIs([mode |-> "ALL_TIME", date |-> NoDate, precise |-> FALSE])
    /\ now \in Nows
    /\ filterKeywords_ = <<>> /\ filterRegexes_ = <<>>
    /\ hist \in {File([i \in 1..n |-> "x"]) : n \in EraseSizes}
    /\ Constructed

\* ---- the runs from the command line on: every mode, with the date strings
\* and the day count the mode reads empty, unparsable, a date alone or a date
\* with a time, with and without --precise; the constructor has yet to
\* validate them
Modes == {"NONE", "TODAY", "LAST_7_DAYS", "LAST_30_DAYS", "SPECIFIC_DAY", "BETWEEN",
          "BEFORE", "AFTER", "OLDER_THAN", "NEWER_THAN", "ALL_TIME"}
ArgDates == {NoDate, Unparsable, DateOnly(1), DateTime(1, 0)}
ArgDays == {-1, 1, 24855, 30000}

InitArgs ==
    /\ dryRun_ \in BOOLEAN
    /\ doBackup_ \in BOOLEAN
    /\ shredPasses_ = 1
    /\ mode_ \in Modes
    /\ preciseTime_ \in BOOLEAN
    /\ specificDateStr_ \in IF mode_ \in {"SPECIFIC_DAY", "BEFORE", "AFTER"}
                            THEN ArgDates ELSE {NoDate}
    /\ startDateStr_ \in IF mode_ = "BETWEEN" THEN ArgDates ELSE {NoDate}
    /\ endDateStr_ \in IF mode_ = "BETWEEN" THEN ArgDates ELSE {NoDate}
    /\ olderThanDays_ \in IF mode_ \in {"OLDER_THAN", "NEWER_THAN"} THEN ArgDays ELSE {-1}
    /\ now \in Nows
    /\ filterKeywords_ = <<>> /\ filterRegexes_ = <<>>
    /\ hist = File(<<"x", "NL", "h1", "NL">>)
    /\ Zeroed
    /\ g_cleaner_instance = FALSE
    /\ disposition = [signal \in Signals |-> "default"]
    /\ pc = "args" /\ isInit = FALSE

\* ---- secureDelete called on its own, on every kind of path and with files of
\* no byte to MaxLen bytes: the state at its first line
DeleteTargets ==
    {NoFile, Dangling, Directory, Special}
        \cup {File(d) : d \in SeqsUpTo({"x"}, MaxLen)}
        \cup {Symlink(d) : d \in SeqsUpTo({"x"}, MaxLen)}

InitDelete ==
    /\ dryRun_ = FALSE /\ doBackup_ = FALSE
    /\ shredPasses_ \in PassCounts
    /\ ModeIs([mode |-> "ALL_TIME", date |-> NoDate, precise |-> FALSE])
    /\ now \in Nows
    /\ filterKeywords_ = <<>> /\ filterRegexes_ = <<>>
    /\ hist \in DeleteTargets
    /\ Fresh /\ pc = "sd_validate" /\ isInit = FALSE

\* ---- the runs that are repeated on their own output: mutating, without
\* backup, over every file of the first runs
InitAgain ==
    /\ dryRun_ = FALSE
    /\ doBackup_ = FALSE
    /\ shredPasses_ = 1
    /\ \E m \in ModeSettings : ModeIs(m)
    /\ now \in Nows
    /\ filterKeywords_ \in KeywordLists
    /\ filterRegexes_ = <<>>
    /\ hist \in {File(d) : d \in SeqsUpTo(InputBytes, MaxLen)}
    /\ Constructed

\* ---- the dry runs that report the records they would delete: files of up to
\* MaxLines lines, headers inside the window [0, 1] of BEFORE and outside it,
\* continuation lines, empty lines, lines ending in a carriage return, the last
\* line with or without its newline; and one mutating run
ReportLines == {<<"h1">>, <<"h2">>, <<"x">>, <<"h1", "CR">>, <<"x", "CR">>, <<>>}
ReportFile(lines, newline) ==
    LET d == Concat([i \in 1..Len(lines) |-> Append(lines[i], "NL")])
    IN  IF newline \/ d = <<>> THEN d ELSE SubSeq(d, 1, Len(d) - 1)
ReportFiles ==
    {File(ReportFile(lines, newline)) :
        lines \in SeqsUpTo(ReportLines, MaxLines), newline \in BOOLEAN}

InitReport ==
    /\ dryRun_ \in BOOLEAN
    /\ doBackup_ = FALSE
    /\ shredPasses_ = 1
    /\ ModeIs([mode |-> "BEFORE", date |-> DateTime(0, 1), precise |-> TRUE])
    /\ now \in Nows
    /\ filterKeywords_ = <<>> /\ filterRegexes_ = <<>>
    /\ hist \in IF dryRun_ THEN ReportFiles ELSE {File(<<"x", "NL", "h1", "NL">>)}
    /\ Constructed

\* ---- the runs that take signals: a mutating run, with or without a backup,
\* over a file of a kept line or of a deleted record and a kept one, as an
\* ordinary process or as the init process of a PID namespace
SignalFiles == {File(<<"x", "NL">>), File(<<"x", "NL", "h1", "NL">>)}

InitSignal ==
    /\ dryRun_ = FALSE
    /\ doBackup_ \in BOOLEAN
    /\ shredPasses_ = 1
    /\ ModeIs([mode |-> "ALL_TIME", date |-> NoDate, precise |-> FALSE])
    /\ now \in Nows
    /\ filterKeywords_ = <<>> /\ filterRegexes_ = <<>>
    /\ hist \in SignalFiles
    /\ Fresh /\ pc = "calc"
    /\ isInit \in BOOLEAN

\* ---- the runs during which a shell appends a record to the history file: a
\* mutating run, with or without a backup, over the files of the signal runs
InitAppend ==
    /\ dryRun_ = FALSE
    /\ doBackup_ \in BOOLEAN
    /\ shredPasses_ \in PassCounts
    /\ ModeIs([mode |-> "ALL_TIME", date |-> NoDate, precise |-> FALSE])
    /\ now \in Nows
    /\ filterKeywords_ = <<>> /\ filterRegexes_ = <<>>
    /\ hist \in SignalFiles
    /\ Constructed

Running(p) == proc = "running" /\ pc = p

\* the locals of processHistory after it has returned
ScanDone ==
    /\ historyIn' = [open |-> FALSE, rest |-> <<>>]
    /\ lineNum' = 0 /\ keptCount' = 0 /\ deletedCount' = 0
    /\ currentCommandBlock' = <<>> /\ keptEntries' = <<>>
    /\ UNCHANGED <<output, reported>>

\* the stack of the main thread once the process has ended: what it printed stays,
\* and so do, for the record, the position and the line count it had reached
ProcessGone ==
    /\ UNCHANGED pc
    /\ sdPass' = 0 /\ sdAt' = "none"
    /\ historyIn' = [open |-> FALSE, rest |-> <<>>]
    /\ keptCount' = 0 /\ deletedCount' = 0
    /\ currentCommandBlock' = <<>> /\ keptEntries' = <<>>
    /\ writeIdx' = 1 /\ tempOpen' = FALSE
    /\ UNCHANGED <<lineNum, output, reported>>

\* HistoryCleaner::cleanup on the temp file; rmOk: fs::remove succeeds
cleanupTemp_NoRemove(rmOk) == temp
cleanupTemp(rmOk) ==
    IF tempFilePath_ /\ temp.kind # "none"
    THEN (IF rmOk THEN NoFile ELSE temp)
    ELSE temp

cleanupPath == IF tempFilePath_ /\ temp.kind # "none" THEN FALSE ELSE tempFilePath_

cleanupWarn_Silent(rmOk) == {}
cleanupWarn(rmOk) ==
    IF tempFilePath_ /\ temp.kind # "none" /\ ~rmOk THEN {"warn_remove_temp"} ELSE {}

\* ------------------------------------------------- calculateTimestamps
\* the window of the mode: [ok |-> FALSE] when calculateTimestamps throws
\* olderThanDays_ * 24 * 60 * 60, lines 397 and 401: a product of ints, so of
\* 32 bits; beyond them the build wraps (two's complement). 86400 is 2^7 * 675,
\* so the product modulo 2^32 is 2^7 times (n * 675 modulo 2^25), and it is
\* negative from 2^24 on
DaysInSeconds(n) ==
    LET low == (n * 675) % 33554432
    IN  IF low >= 16777216 THEN (low - 33554432) * 128 ELSE low * 128

Window_AllTimeFromNow ==
    LET d == dateToEpoch(specificDateStr_, preciseTime_)
    IN  IF mode_ = "ALL_TIME" THEN [ok |-> TRUE, start |-> now, end |-> TIME_MAX]
        ELSE [ok |-> d.ok, start |-> 0, end |-> d.epoch]

Window_BeforeInclusive ==
    LET d == dateToEpoch(specificDateStr_, preciseTime_)
    IN  [ok |-> d.ok, start |-> 0, end |-> d.epoch]

Window ==
    LET Ok(s, e) == [ok |-> TRUE, start |-> s, end |-> e]
        Throws == [ok |-> FALSE, start |-> 0, end |-> 0]
        d == dateToEpoch(specificDateStr_, preciseTime_)
        sd == dateToEpoch(startDateStr_, preciseTime_)
        ed == dateToEpoch(endDateStr_, preciseTime_)
    IN  CASE mode_ = "TODAY" ->
                Ok(mktime([localtime_r(now) EXCEPT !.tm_sec = 0]), TIME_MAX)
          [] mode_ = "LAST_7_DAYS" -> Ok(now - 7 * Day, TIME_MAX)
          [] mode_ = "LAST_30_DAYS" -> Ok(now - 30 * Day, TIME_MAX)
          [] mode_ = "SPECIFIC_DAY" ->
                IF ~d.ok THEN Throws
                ELSE IF preciseTime_ THEN Ok(d.epoch, d.epoch)
                ELSE Ok(d.epoch, mktime(EndOfDayTm(d.epoch)))
          [] mode_ = "BETWEEN" ->
                IF ~sd.ok \/ ~ed.ok THEN Throws
                ELSE IF preciseTime_ THEN Ok(sd.epoch, ed.epoch)
                ELSE Ok(sd.epoch, mktime(EndOfDayTm(ed.epoch)))
          [] mode_ = "BEFORE" ->
                IF ~d.ok THEN Throws
                ELSE IF preciseTime_ THEN Ok(0, d.epoch)
                ELSE Ok(0, d.epoch - 1)
          [] mode_ = "AFTER" -> IF ~d.ok THEN Throws ELSE Ok(d.epoch, TIME_MAX)
          [] mode_ = "OLDER_THAN" -> Ok(0, now - DaysInSeconds(olderThanDays_))
          [] mode_ = "NEWER_THAN" -> Ok(now - DaysInSeconds(olderThanDays_), TIME_MAX)
          [] mode_ = "ALL_TIME" -> Ok(0, TIME_MAX)
          [] mode_ = "NONE" -> Throws

\* the constructor, lines 32-54: parseArguments with its validation of a
\* non-interactive command line, lines 563-625, then the registration of the
\* instance and of the handlers
parseArguments ==
    /\ Running("args")
    /\ LET empty(str) == str = NoDate
           rejected ==
             CASE mode_ = "NONE" -> {"mode_required"}
               [] mode_ = "BETWEEN" ->
                    IF empty(startDateStr_) \/ empty(endDateStr_)
                    THEN {"start_end_date_required"} ELSE {}
               [] mode_ \in {"SPECIFIC_DAY", "BEFORE", "AFTER"} ->
                    IF empty(specificDateStr_) THEN {"date_required"} ELSE {}
               [] mode_ = "OLDER_THAN" ->
                    IF olderThanDays_ <= 0 THEN {"days_required"}
                    ELSE IF ~empty(startDateStr_) \/ ~empty(endDateStr_)
                            \/ ~empty(specificDateStr_) \/ preciseTime_
                    THEN {"older_than_takes_no_date"} ELSE {}
               [] OTHER -> {}
       IN  IF rejected # {}
           THEN /\ proc' = "exited" /\ exitCode' = 1
                /\ errs' = errs \cup rejected
                /\ ProcessGone
                /\ UNCHANGED <<doBackup_, g_cleaner_instance, disposition>>
           ELSE /\ doBackup_' = (doBackup_ /\ ~dryRun_)
                /\ g_cleaner_instance' = TRUE
                /\ disposition' = [signal \in Signals |-> "handler"]
                /\ pc' = "calc"
                /\ UNCHANGED <<proc, exitCode, errs, scanv, sdPass, sdAt, writeIdx, tempOpen>>
    /\ UNCHANGED <<dryRun_, shredPasses_, filterKeywords_, filterRegexes_, mode_,
                   specificDateStr_, startDateStr_, endDateStr_, olderThanDays_, preciseTime_,
                   now, hist0, startTimestamp_, endTimestamp_, files, interrupted_, paths,
                   bytesWritten, sdRet, phRet, isInit, handlers, inAllocator, flagWrites,
                   cleanupRuns, envv>>

\* runNonInteractive lines 161-167: calculateTimestamps; what it throws ends in
\* errorExit; then the poll of interrupted_
calculateTimestamps ==
    /\ Running("calc")
    /\ IF Window.ok
       THEN /\ startTimestamp_' = Window.start /\ endTimestamp_' = Window.end
            /\ IF interrupted_ = 1
               THEN \* line 167: return; run() and main return as well
                    /\ pc' = "dtor"
                    /\ errs' = errs \cup {"interrupted_after_timestamps"}
               ELSE /\ pc' = "ph_start"
                    /\ UNCHANGED errs
            /\ UNCHANGED <<procv, scanv, writeIdx, tempOpen, sdPass, sdAt>>
       ELSE /\ proc' = "exited" /\ exitCode' = 1
            /\ errs' = errs \cup {"error_calculating_timestamps"}
            /\ ProcessGone
            /\ UNCHANGED <<startTimestamp_, endTimestamp_, g_cleaner_instance, interrupted_>>
    /\ UNCHANGED <<settings, files, paths, bytesWritten, sdRet, phRet>>

\* ------------------------------------------------- processHistory: scan
\* line 1046: std::ifstream historyIn(path, std::ios::binary) leaves the file as it is
OpenTruncating(file) == [file EXCEPT !.data = <<>>]
OpenForReading(file) == file

\* lines 1040-1050: the poll of interrupted_ and the open of the history file
PH_Open ==
    /\ Running("ph_start")
    /\ \E ok \in BOOLEAN :
        IF interrupted_ = 1
        THEN /\ phRet' = "false" /\ pc' = "ph_ret"
             /\ errs' = (errs \cup {"interrupted_before_processing"})
             /\ UNCHANGED historyIn
        ELSE IF hist.kind # "none" /\ ~ok
        THEN /\ phRet' = "false" /\ pc' = "ph_ret"
             /\ errs' = (errs \cup {"cannot_open_history"})
             /\ UNCHANGED historyIn
        ELSE /\ historyIn' = [open |-> hist.kind = "regular", rest |-> hist.data]
             /\ pc' = "ph_scan"
             /\ UNCHANGED <<phRet, errs>>
    /\ hist' = OpenForReading(hist)
    /\ UNCHANGED <<config, temp, backup, obscure, procv, paths, sdv, writeIdx, tempOpen,
                   lineNum, keptCount, deletedCount, currentCommandBlock, keptEntries,
                   output, reported>>

\* the per-block bookkeeping of lines 1085-1090 and 1111-1116
FlushKept(block) == IF ~processCommandBlock(block) /\ ~dryRun_
                    THEN Append(keptEntries, block) ELSE keptEntries
FlushOutput_NextLine(block, n) ==
    IF processCommandBlock(block) /\ dryRun_
    THEN Append(output, [lineNum |-> n + 1, block |-> block]) ELSE output
FlushOutput(block, n) == IF processCommandBlock(block) /\ dryRun_
                         THEN Append(output, [lineNum |-> n, block |-> block]) ELSE output

\* lines 1099-1105: a line before the first header is a kept entry of its own
KeepPreamble_Dropped(line) == keptEntries
KeepPreamble(line) ==
    IF dryRun_ THEN keptEntries ELSE Append(keptEntries, Append(line, "NL"))

\* line 1105: keptCount++ for that line
CountPreamble_NotCounted == keptCount
CountPreamble_Once == IF keptCount = 0 THEN 1 ELSE keptCount
CountPreamble == keptCount + 1

\* lines 1058-1108: one iteration of the read loop
PH_ScanLine ==
    /\ Running("ph_scan")
    /\ \E readOk \in BOOLEAN :
        IF interrupted_ = 1
        THEN /\ phRet' = "false" /\ pc' = "ph_ret"
             /\ errs' = (errs \cup {"interrupted_during_processing"})
             /\ ScanDone
        ELSE IF ~historyIn.open \/ ~readOk
        THEN \* getline fails and eof() is false
             /\ phRet' = "false" /\ pc' = "ph_ret"
             /\ errs' = (errs \cup {"error_reading_history"})
             /\ ScanDone
        ELSE IF historyIn.rest = <<>>
        THEN \* getline fails at end of file
             /\ pc' = "ph_last"
             /\ UNCHANGED <<phRet, errs, scanv>>
        ELSE LET got  == GetLine(historyIn.rest)
                 line == StripCR(got.line)
                 n    == lineNum + 1
             IN  /\ historyIn' = [historyIn EXCEPT !.rest = got.rest]
                 /\ lineNum' = n
                 /\ IF historyEntryRegex_(line)
                    THEN /\ IF currentCommandBlock # <<>>
                            THEN /\ keptEntries' = FlushKept(currentCommandBlock)
                                 /\ output' = FlushOutput(currentCommandBlock, n - 1)
                                 /\ IF processCommandBlock(currentCommandBlock)
                                    THEN deletedCount' = deletedCount + 1 /\ UNCHANGED keptCount
                                    ELSE keptCount' = keptCount + 1 /\ UNCHANGED deletedCount
                            ELSE UNCHANGED <<keptEntries, output, keptCount, deletedCount>>
                         /\ currentCommandBlock' = Append(line, "NL")
                    ELSE IF currentCommandBlock # <<>>
                    THEN /\ currentCommandBlock' = currentCommandBlock \o Append(line, "NL")
                         /\ UNCHANGED <<keptEntries, output, keptCount, deletedCount>>
                    ELSE /\ keptEntries' = KeepPreamble(line)
                         /\ keptCount' = CountPreamble
                         /\ UNCHANGED <<currentCommandBlock, output, deletedCount>>
                 /\ UNCHANGED <<pc, phRet, errs, reported>>
    /\ UNCHANGED <<config, files, procv, paths, sdv, writeIdx, tempOpen>>

\* lines 1124-1126: if (dryRun_) return true;
DryRunFallsThrough == FALSE
DryRunReturns == dryRun_

\* lines 1110-1126: the last block, the report, and the return of a dry run
PH_LastBlock ==
    /\ Running("ph_last")
    /\ LET flush == currentCommandBlock # <<>>
           del   == flush /\ processCommandBlock(currentCommandBlock)
           kc    == IF flush /\ ~del THEN keptCount + 1 ELSE keptCount
           dc    == IF del THEN deletedCount + 1 ELSE deletedCount
       IN  /\ keptCount' = kc /\ deletedCount' = dc
           /\ output' = IF flush THEN FlushOutput(currentCommandBlock, lineNum) ELSE output
           /\ reported' = <<lineNum, kc, dc>>
           /\ historyIn' = [open |-> FALSE, rest |-> <<>>]
           /\ IF DryRunReturns
              THEN /\ phRet' = "true" /\ pc' = "ph_ret"
                   /\ keptEntries' = <<>> /\ currentCommandBlock' = <<>>
              ELSE /\ pc' = "ph_temppath"
                   /\ keptEntries' = IF flush THEN FlushKept(currentCommandBlock) ELSE keptEntries
                   /\ currentCommandBlock' = <<>>
                   /\ UNCHANGED phRet
    /\ UNCHANGED <<config, files, procv, paths, sdv, writeIdx, tempOpen, lineNum, errs>>


\* ----------------------------------------------- processHistory: commit
\* lines 1128-1137: tempFilePath_ is assigned
PH_SetTempPath ==
    /\ Running("ph_temppath")
    /\ tempFilePath_' = TRUE
    /\ pc' = "ph_create"
    /\ UNCHANGED <<config, files, procv, backupFilePath_, scanv, sdv, writeIdx, tempOpen, phRet, errs>>

\* lines 1140-1144: std::ofstream newFile(tempFilePath_)
PH_CreateTemp ==
    /\ Running("ph_create")
    /\ \E ok \in BOOLEAN :
        IF ok
        THEN /\ temp' = File(<<>>) /\ tempOpen' = TRUE /\ writeIdx' = 1
             /\ pc' = "ph_write"
             /\ UNCHANGED <<phRet, errs, scanv>>
        ELSE /\ phRet' = "false" /\ pc' = "ph_ret"
             /\ errs' = (errs \cup {"cannot_create_new_file"})
             /\ ScanDone
             /\ UNCHANGED <<temp, tempOpen, writeIdx>>
    /\ UNCHANGED <<config, hist, backup, obscure, procv, paths, sdv>>

\* lines 1146-1154: one iteration of the write loop
PH_WriteEntry ==
    /\ Running("ph_write")
    /\ writeIdx <= Len(keptEntries)
    /\ \E ok \in BOOLEAN, rmOk \in BOOLEAN :
        IF ok
        THEN \* a file the handler has removed stays open, and off the disk
             /\ temp' = IF temp.kind = "none" THEN temp
                        ELSE [temp EXCEPT !.data = @ \o keptEntries[writeIdx]]
             /\ writeIdx' = writeIdx + 1
             /\ UNCHANGED <<pc, phRet, errs, tempOpen, tempFilePath_, scanv>>
        ELSE /\ tempOpen' = FALSE
             /\ temp' = cleanupTemp(rmOk)
             /\ tempFilePath_' = cleanupPath
             /\ phRet' = "false" /\ pc' = "ph_ret"
             /\ errs' = (errs \cup {"failed_write_new_file"}) \cup cleanupWarn(rmOk)
             /\ ScanDone
             /\ UNCHANGED writeIdx
    /\ UNCHANGED <<config, hist, backup, obscure, procv, backupFilePath_, sdv>>

\* line 1156: newFile.close(), then the call of performCleanup
PH_CloseTemp ==
    /\ Running("ph_write")
    /\ writeIdx > Len(keptEntries)
    /\ tempOpen' = FALSE
    /\ pc' = "pc_start"
    /\ UNCHANGED <<config, files, procv, paths, scanv, sdv, writeIdx, phRet, errs>>

\* fs::copy_file, line 1193: the backup file after a copy that succeeds (ok) or
\* fails leaving nothing or a truncated file (partial)
CopyFile_Truncated(ok, partial) == File(<<>>)
CopyFile(ok, partial) ==
    IF ok THEN File(hist.data)
    ELSE IF partial THEN File(<<>>) ELSE backup

\* HistoryCleaner::backupHistoryFile, lines 1177-1203: its return value
backupHistoryFile_IgnoresEc(ok) == TRUE
backupHistoryFile(ok) == ok

\* performCleanup, lines 1205-1222, and on its failure lines 1159-1162
PC_Backup ==
    /\ Running("pc_start")
    /\ \E ok \in BOOLEAN, partial \in BOOLEAN, rmOk \in BOOLEAN :
        IF interrupted_ = 1
        THEN /\ temp' = cleanupTemp(rmOk) /\ tempFilePath_' = cleanupPath
             /\ phRet' = "false" /\ pc' = "ph_ret"
             /\ errs' = (errs \cup {"interrupted_before_cleanup"}) \cup cleanupWarn(rmOk)
             /\ ScanDone
             /\ UNCHANGED <<backup, backupFilePath_>>
        ELSE IF ~doBackup_
        THEN /\ pc' = "sd_validate"
             /\ UNCHANGED <<temp, paths, backup, phRet, errs, scanv>>
        ELSE IF backupHistoryFile(ok)
        THEN /\ backup' = CopyFile(ok, partial)
             /\ backupFilePath_' = TRUE
             /\ pc' = "sd_validate"
             /\ UNCHANGED <<temp, tempFilePath_, phRet, errs, scanv>>
        ELSE /\ backup' = CopyFile(ok, partial)
             /\ backupFilePath_' = FALSE
             /\ temp' = cleanupTemp(rmOk) /\ tempFilePath_' = cleanupPath
             /\ phRet' = "false" /\ pc' = "ph_ret"
             /\ errs' = errs \cup {"failed_create_backup", "backup_failed_aborting"}
                              \cup cleanupWarn(rmOk)
             /\ ScanDone
    /\ UNCHANGED <<config, hist, obscure, procv, sdv, writeIdx, tempOpen>>


\* ----------------------------------------------------------- secureDelete
\* fs::remove(filepath, ec) of the file at the original path: the file after
\* the call; the call returns TRUE exactly when it removed a file
RemoveHist(rmOk) == IF rmOk /\ hist.kind # "none" THEN NoFile ELSE hist
Removed(rmOk) == rmOk /\ hist.kind # "none"

Bool(b) == IF b THEN "true" ELSE "false"

\* n bytes of overwrite data
Garbage(n) == [i \in 1..n |-> "#"]

\* the bytes of the file after the first n were overwritten
Overwritten_Appended(data, n) == data \o Garbage(n)
Overwritten(data, n) == Garbage(n) \o SubSeq(data, n + 1, Len(data))

\* the size of one write call: std::min(buffer.size(), remaining)
WriteSize(remaining) == IF remaining < SHRED_BUFFER_SIZE THEN remaining ELSE SHRED_BUFFER_SIZE

\* the write calls a pass over fileSize bytes makes when none fails, and the
\* bytes left before the c-th of them
Chunks(fileSize) == (fileSize + SHRED_BUFFER_SIZE - 1) \div SHRED_BUFFER_SIZE
Remaining(fileSize, c) == fileSize - (c - 1) * SHRED_BUFFER_SIZE

\* what write() can return for writeSize bytes: -1, or a count up to writeSize
\* (the counts near both ends stand for the ones in between)
WriteReturns(writeSize) == {w \in -1..writeSize : w <= 2 \/ w >= writeSize - 2}

\* lines 72-97: the status and the size of the file
SD_Validate ==
    /\ Running("sd_validate")
    /\ \E statOk \in BOOLEAN, sizeOk \in BOOLEAN, rmOk \in BOOLEAN :
        IF status_not_found(hist) \/ ~statOk
        THEN \* is_regular_file sets ec, also for a path that does not exist
             /\ sdRet' = "false" /\ pc' = "sd_ret"
             /\ errs' = (errs \cup {"failed_check_status"})
             /\ UNCHANGED <<hist, sdPass>>
        ELSE IF ~is_regular_file(hist)
        THEN /\ hist' = RemoveHist(rmOk)
             /\ sdRet' = Bool(Removed(rmOk)) /\ pc' = "sd_ret"
             /\ errs' = (errs \cup {"warn_not_regular"})
             /\ UNCHANGED sdPass
        ELSE IF ~sizeOk
        THEN /\ hist' = RemoveHist(rmOk)
             /\ sdRet' = Bool(Removed(rmOk)) /\ pc' = "sd_ret"
             /\ errs' = (errs \cup {"failed_get_size"})
             /\ UNCHANGED sdPass
        ELSE IF Len(hist.data) = 0
        THEN /\ hist' = RemoveHist(rmOk)
             /\ sdRet' = Bool(Removed(rmOk)) /\ pc' = "sd_ret"
             /\ UNCHANGED <<errs, sdPass>>
        ELSE /\ pc' = "sd_open"
             /\ UNCHANGED <<hist, sdRet, errs, sdPass>>
    /\ UNCHANGED <<config, temp, backup, obscure, procv, paths, scanv, writeIdx, tempOpen,
                   phRet, sdAt, bytesWritten>>

\* lines 99-109: open(filepath, O_WRONLY | O_SYNC), with the fallback without O_SYNC
SD_Open ==
    /\ Running("sd_open")
    /\ \E ok \in BOOLEAN, rmOk \in BOOLEAN :
        IF ok
        THEN /\ pc' = "sd_pass" /\ sdPass' = 1
             /\ UNCHANGED <<hist, sdRet, errs>>
        ELSE /\ hist' = RemoveHist(rmOk)
             /\ sdRet' = Bool(Removed(rmOk)) /\ pc' = "sd_ret"
             /\ errs' = (errs \cup {"failed_open_file"})
             /\ UNCHANGED sdPass
    /\ UNCHANGED <<config, temp, backup, obscure, procv, paths, scanv, writeIdx, tempOpen,
                   phRet, sdAt, bytesWritten>>

\* lines 118-149: one overwrite pass. The write calls before the c-th returned
\* their full size; the c-th is the last of the pass, either because it failed
\* or came short, or because it wrote the last bytes of the file. written: what
\* that call returned (a call interrupted with EINTR is repeated and changes
\* nothing)
SD_Pass ==
    /\ Running("sd_pass")
    /\ sdPass <= shredPasses_
    /\ LET fileSize == Len(hist.data) - grown
       IN \E seekOk \in BOOLEAN, c \in 1..Chunks(fileSize), syncOk \in BOOLEAN,
             rmOk \in BOOLEAN :
          LET writeSize == WriteSize(Remaining(fileSize, c))
              before    == fileSize - Remaining(fileSize, c)
          IN \E written \in WriteReturns(writeSize) :
            /\ (written = writeSize) => (Remaining(fileSize, c) = writeSize)
            /\ IF ~seekOk
               THEN /\ c = 1 /\ written = -1
                    /\ hist' = RemoveHist(rmOk)
                    /\ sdRet' = Bool(Removed(rmOk)) /\ pc' = "sd_ret"
                    /\ errs' = (errs \cup {"failed_seek"})
                    /\ UNCHANGED <<sdPass, bytesWritten>>
               ELSE IF written = -1
               THEN /\ hist' = IF Removed(rmOk) THEN NoFile
                               ELSE [hist EXCEPT !.data = Overwritten(@, before)]
                    /\ sdRet' = Bool(Removed(rmOk)) /\ pc' = "sd_ret"
                    /\ errs' = (errs \cup {"write_failed"})
                    /\ bytesWritten' = bytesWritten + before
                    /\ UNCHANGED sdPass
               ELSE IF written # writeSize
               THEN /\ hist' = IF Removed(rmOk) THEN NoFile
                               ELSE [hist EXCEPT !.data = Overwritten(@, before + written)]
                    /\ sdRet' = Bool(Removed(rmOk)) /\ pc' = "sd_ret"
                    /\ errs' = (errs \cup {"incomplete_write"})
                    /\ bytesWritten' = bytesWritten + before + written
                    /\ UNCHANGED sdPass
               ELSE /\ hist' = [hist EXCEPT !.data = Overwritten(@, before + written)]
                    /\ bytesWritten' = bytesWritten + before + written
                    /\ sdPass' = sdPass + 1
                    /\ errs' = IF syncOk THEN errs ELSE (errs \cup {"warn_fsync_failed"})
                    /\ UNCHANGED <<pc, sdRet>>
    /\ UNCHANGED <<config, temp, backup, obscure, procv, paths, scanv, writeIdx, tempOpen,
                   phRet, sdAt>>

\* lines 161-164: the path the final remove is given, the random name, or the
\* original one when the rename failed
obscurePath_NotReset(ok) == "obscurePath"
obscurePath(ok) == IF ok THEN "obscurePath" ELSE "filepath"

\* lines 152-164: the rename to a random name in the same directory
SD_Rename ==
    /\ Running("sd_pass")
    /\ sdPass > shredPasses_
    /\ \E ok \in BOOLEAN :
        IF ok
        THEN /\ obscure' = hist /\ hist' = NoFile /\ sdAt' = obscurePath(ok)
        ELSE /\ sdAt' = obscurePath(ok) /\ UNCHANGED <<hist, obscure>>
    /\ pc' = "sd_remove"
    /\ UNCHANGED <<config, temp, backup, procv, paths, scanv, writeIdx, tempOpen,
                   phRet, errs, sdPass, bytesWritten, sdRet>>

\* lines 167-172: the final fs::remove(obscurePath)
SD_Remove ==
    /\ Running("sd_remove")
    /\ \E ok \in BOOLEAN :
        IF ok
        THEN /\ IF sdAt = "obscurePath"
                THEN obscure' = NoFile /\ UNCHANGED hist
                ELSE hist' = NoFile /\ UNCHANGED obscure
             /\ sdRet' = "true"
             /\ UNCHANGED errs
        ELSE /\ sdRet' = "false"
             /\ errs' = (errs \cup {"failed_delete_file"})
             /\ UNCHANGED <<hist, obscure>>
    /\ pc' = "sd_ret"
    /\ UNCHANGED <<config, temp, backup, procv, paths, scanv, writeIdx, tempOpen,
                   phRet, sdPass, sdAt, bytesWritten>>


\* ------------------------------------- after secureDelete, rename, exit
\* performCleanup lines 1226-1233 and processHistory lines 1159-1162
PC_AfterErase ==
    /\ Running("sd_ret")
    /\ \E rmOk \in BOOLEAN :
        IF sdRet = "true"
        THEN /\ pc' = "ph_rename"
             /\ UNCHANGED <<temp, tempFilePath_, phRet, errs, scanv>>
        ELSE /\ temp' = cleanupTemp(rmOk) /\ tempFilePath_' = cleanupPath
             /\ phRet' = "false" /\ pc' = "ph_ret"
             /\ errs' = (errs \cup {"secure_delete_failed"}) \cup cleanupWarn(rmOk)
             /\ ScanDone
    /\ UNCHANGED <<config, hist, backup, obscure, procv, backupFilePath_, sdv, writeIdx, tempOpen>>

\* lines 1164-1174: fs::rename(tempFilePath_, effectiveHistoryFilePath_, ec)
PH_Rename ==
    /\ Running("ph_rename")
    /\ \E ok \in BOOLEAN, rmOk \in BOOLEAN :
        IF ok /\ tempFilePath_ /\ temp.kind # "none"
        THEN /\ hist' = temp /\ temp' = NoFile
             /\ tempFilePath_' = FALSE
             /\ phRet' = "true"
             /\ UNCHANGED errs
        ELSE /\ temp' = cleanupTemp(rmOk) /\ tempFilePath_' = cleanupPath
             /\ phRet' = "false"
             /\ errs' = (errs \cup {"failed_rename_new_file"}) \cup cleanupWarn(rmOk)
             /\ UNCHANGED hist
    /\ pc' = "ph_ret"
    /\ ScanDone
    /\ UNCHANGED <<config, backup, obscure, procv, backupFilePath_, sdv, writeIdx, tempOpen>>

\* runNonInteractive lines 172-191 (runInteractive lines 938-955): a false
\* result ends in errorExit, std::exit(1), which runs no destructor
Run_Return ==
    /\ Running("ph_ret")
    /\ IF phRet = "false"
       THEN /\ proc' = "exited" /\ exitCode' = 1
            /\ errs' = errs \cup {IF dryRun_ THEN "dry_run_failed" ELSE "failed_to_process"}
            /\ ProcessGone
       ELSE \* line 188: the poll only changes what is printed
            /\ pc' = "dtor"
            /\ errs' = IF interrupted_ = 1 /\ ~dryRun_
                       THEN errs \cup {"interrupted_after_processing"} ELSE errs
            /\ UNCHANGED <<proc, exitCode, scanv, writeIdx, tempOpen, sdPass, sdAt>>
    /\ UNCHANGED <<config, files, g_cleaner_instance, interrupted_, paths, bytesWritten,
                   sdRet, phRet>>

\* HistoryCleaner::~HistoryCleaner, lines 57-60
Destructor ==
    /\ Running("dtor")
    /\ \E rmOk \in BOOLEAN :
        /\ temp' = cleanupTemp(rmOk) /\ tempFilePath_' = cleanupPath
        /\ errs' = errs \cup cleanupWarn(rmOk)
    /\ g_cleaner_instance' = FALSE
    /\ pc' = "main_ret"
    /\ UNCHANGED <<config, hist, backup, obscure, proc, exitCode, interrupted_, backupFilePath_,
                   scanv, sdv, writeIdx, tempOpen, phRet>>

\* main.cpp line 21: return 0
Main_Return ==
    /\ Running("main_ret")
    /\ proc' = "exited" /\ exitCode' = 0
    /\ ProcessGone
    /\ UNCHANGED <<config, files, g_cleaner_instance, interrupted_, paths, bytesWritten,
                   sdRet, phRet, errs>>

\* ---------------------------------------------------------------- signals
\* line 124: the status of _Exit(128 + signal)
ForcedExit_Success(signal) == 0
ForcedExit(signal) == 128 + signal

\* staticSignalHandler, lines 117-126, with cleanupAndExit, lines 88-108: the
\* handler runs on the main thread's stack between two of its steps and ends
\* the process
staticSignalHandler ==
    /\ proc = "running"
    /\ \E signal \in Signals, rmOk \in BOOLEAN :
        IF g_cleaner_instance
        THEN /\ interrupted_' = 1
             /\ temp' = cleanupTemp(rmOk) /\ tempFilePath_' = cleanupPath
             /\ errs' = (errs \cup {"received_signal"}) \cup cleanupWarn(rmOk)
             /\ proc' = "killed" /\ UNCHANGED exitCode
        ELSE /\ proc' = "exited" /\ exitCode' = ForcedExit(signal)
             /\ errs' = (errs \cup {"no_active_instance"})
             /\ UNCHANGED <<interrupted_, temp, tempFilePath_>>
    /\ ProcessGone
    /\ UNCHANGED <<config, hist, backup, obscure, g_cleaner_instance, backupFilePath_,
                   bytesWritten, sdRet, phRet>>

\* ---- the handler step by step. std::signal installs it with the signal itself
\* blocked while it runs, so another of the three signals can arrive inside it
Blocked == {handlers[i].signal : i \in 1..Len(handlers)}
Top == handlers[Len(handlers)]
SetTop(at) == [handlers EXCEPT ![Len(handlers)].at = at]

\* the process ends inside the handler
HandlerGone ==
    /\ handlers' = <<>> /\ inAllocator' = FALSE
    /\ ProcessGone

\* the code between the handler's steps, of which it changes nothing
HandlerFrame ==
    UNCHANGED <<options, envv, startTimestamp_, endTimestamp_, hist, backup, obscure,
                g_cleaner_instance, backupFilePath_, bytesWritten, sdRet, phRet, isInit>>

\* a signal whose handler is installed arrives: the handler starts on the stack
\* of the main thread, between two of its steps or inside one (alloc: inside
\* the allocator or a stream operation)
Signal_Arrives ==
    /\ proc \in {"running", "handler"}
    /\ \E signal \in Signals \ Blocked, alloc \in BOOLEAN :
        /\ disposition[signal] = "handler"
        /\ handlers' = Append(handlers, [signal |-> signal, at |-> "entry"])
        /\ inAllocator' = IF handlers = <<>> THEN alloc ELSE inAllocator
    /\ proc' = "handler"
    /\ HandlerFrame
    /\ UNCHANGED <<temp, tempFilePath_, exitCode, interrupted_, scanv, sdPass, sdAt, pc,
                   writeIdx, tempOpen, errs, disposition, flagWrites, cleanupRuns>>

\* staticSignalHandler, lines 117-126: the flag, or _Exit without an instance
Handler_Enter ==
    /\ proc = "handler" /\ Top.at = "entry"
    /\ IF g_cleaner_instance
       THEN /\ interrupted_' = 1
            /\ flagWrites' = flagWrites + 1
            /\ handlers' = SetTop("cleanup")
            /\ UNCHANGED <<proc, exitCode, errs, inAllocator, scanv, sdPass, sdAt, pc,
                           writeIdx, tempOpen>>
       ELSE /\ proc' = "exited" /\ exitCode' = ForcedExit(Top.signal)
            /\ errs' = (errs \cup {"no_active_instance"})
            /\ HandlerGone
            /\ UNCHANGED <<interrupted_, flagWrites>>
    /\ HandlerFrame
    /\ UNCHANGED <<temp, tempFilePath_, disposition, cleanupRuns>>

\* cleanupAndExit, lines 88-102: the message with write(), then cleanup(). When
\* the temp file is registered and exists, cleanup() goes on to
\* tempFilePath_.string(), std::cerr and tempFilePath_.clear(), which allocate
\* and free: undefined when the handler interrupted the allocator or a stream
\* operation. The outcomes are that it goes through, or that it blocks on the
\* lock the interrupted code holds and the process hangs
Handler_Cleanup ==
    /\ proc = "handler" /\ Top.at = "cleanup"
    /\ \E rmOk \in BOOLEAN, blocks \in BOOLEAN :
        /\ blocks => (inAllocator /\ tempFilePath_ /\ temp.kind # "none")
        /\ temp' = cleanupTemp(rmOk)
        /\ errs' = (errs \cup {"received_signal"}) \cup cleanupWarn(rmOk)
        /\ IF blocks
           THEN /\ proc' = "hung"
                /\ UNCHANGED <<tempFilePath_, handlers>>
           ELSE /\ tempFilePath_' = cleanupPath
                /\ handlers' = SetTop("reset")
                /\ UNCHANGED proc
    /\ cleanupRuns' = cleanupRuns + 1
    /\ HandlerFrame
    /\ UNCHANGED <<exitCode, interrupted_, scanv, sdPass, sdAt, pc, writeIdx, tempOpen,
                   disposition, inAllocator, flagWrites>>

\* line 105: std::signal(signal, SIG_DFL)
Handler_Reset ==
    /\ proc = "handler" /\ Top.at = "reset"
    /\ disposition' = [disposition EXCEPT ![Top.signal] = "default"]
    /\ handlers' = SetTop("raise")
    /\ HandlerFrame
    /\ UNCHANGED <<temp, tempFilePath_, proc, exitCode, interrupted_, scanv, sdPass, sdAt,
                   pc, writeIdx, tempOpen, errs, inAllocator, flagWrites, cleanupRuns>>

\* line 106: raise(signal); the signal is blocked inside its own handler and
\* stays pending
Handler_Raise ==
    /\ proc = "handler" /\ Top.at = "raise"
    /\ handlers' = SetTop("raised")
    /\ HandlerFrame
    /\ UNCHANGED <<temp, tempFilePath_, proc, exitCode, interrupted_, scanv, sdPass, sdAt,
                   pc, writeIdx, tempOpen, errs, disposition, inAllocator, flagWrites,
                   cleanupRuns>>

\* lines 107 and 126: the handler returns and the pending signal is delivered
\* with its default action: it ends the process, unless the process is the init
\* process of its PID namespace, for which the kernel drops a signal whose
\* disposition is the default; the interrupted code then goes on
Handler_Return ==
    /\ proc = "handler" /\ Top.at = "raised"
    /\ IF ~isInit
       THEN /\ proc' = "killed"
            /\ HandlerGone
       ELSE /\ handlers' = SubSeq(handlers, 1, Len(handlers) - 1)
            /\ proc' = IF Len(handlers) = 1 THEN "running" ELSE "handler"
            /\ inAllocator' = IF Len(handlers) = 1 THEN FALSE ELSE inAllocator
            /\ UNCHANGED <<scanv, sdPass, sdAt, pc, writeIdx, tempOpen>>
    /\ HandlerFrame
    /\ UNCHANGED <<temp, tempFilePath_, exitCode, interrupted_, errs, disposition,
                   flagWrites, cleanupRuns>>

Next ==
    \/ calculateTimestamps
    \/ PH_Open
    \/ PH_ScanLine
    \/ PH_LastBlock
    \/ PH_SetTempPath
    \/ PH_CreateTemp
    \/ PH_WriteEntry
    \/ PH_CloseTemp
    \/ PC_Backup
    \/ SD_Validate
    \/ SD_Open
    \/ SD_Pass
    \/ SD_Rename
    \/ SD_Remove
    \/ PC_AfterErase
    \/ PH_Rename
    \/ Run_Return
    \/ Destructor
    \/ Main_Return
    \/ staticSignalHandler

Spec == Init /\ [][Next]_vars
SpecScan == InitScan /\ [][Next]_vars
SpecFilter == InitFilter /\ [][Next]_vars
SpecWindow == InitWindow /\ [][Next]_vars
SpecErase == InitErase /\ [][Next]_vars
SpecBetween == InitBetween /\ [][Next]_vars
SpecReport == InitReport /\ [][Next]_vars

\* SecureDelete::secureDelete alone, from its first line to its return
NextDelete ==
    \/ SD_Validate
    \/ SD_Open
    \/ SD_Pass
    \/ SD_Rename
    \/ SD_Remove

SpecDelete == InitDelete /\ [][NextDelete]_vars

\* the run from the constructor on
NextArgs ==
    \/ parseArguments
    \/ calculateTimestamps
    \/ PH_Open
    \/ PH_ScanLine
    \/ PH_LastBlock
    \/ PH_SetTempPath
    \/ PH_CreateTemp
    \/ PH_WriteEntry
    \/ PH_CloseTemp
    \/ PC_Backup
    \/ SD_Validate
    \/ SD_Open
    \/ SD_Pass
    \/ SD_Rename
    \/ SD_Remove
    \/ PC_AfterErase
    \/ PH_Rename
    \/ Run_Return
    \/ Destructor
    \/ Main_Return

SpecArgs == InitArgs /\ [][NextArgs]_vars

\* ---- another process. The run takes no lock on the history file: it reads it
\* to the end (lines 1044-1118), then overwrites, removes and replaces it by
\* path (lines 1158-1174). A shell appends a record with open(O_APPEND |
\* O_CREAT), which creates the file when the path is free; here it does so
\* once, after the scan has met the end of the input and before the commit ends
AppendedRecord == <<"h2", "NL">>
CommitSteps == {"ph_last", "ph_temppath", "ph_create", "ph_write", "pc_start",
                "sd_validate", "sd_open", "sd_pass", "sd_remove", "sd_ret", "ph_rename"}

ShellAppends ==
    /\ proc = "running" /\ pc \in CommitSteps
    /\ appended = <<>>
    /\ hist.kind \in {"regular", "none"}
    /\ hist' = File(hist.data \o AppendedRecord)
    /\ appended' = AppendedRecord
    /\ grown' = IF pc \in {"sd_open", "sd_pass"} /\ hist.kind = "regular"
                THEN Len(AppendedRecord) ELSE 0
    /\ UNCHANGED <<options, sigv, startTimestamp_, endTimestamp_, temp, backup, obscure,
                   procv, paths, scanv, sdv, pc, writeIdx, tempOpen, phRet, errs, invocation>>

NextAppend ==
    \/ calculateTimestamps
    \/ PH_Open
    \/ PH_ScanLine
    \/ PH_LastBlock
    \/ PH_SetTempPath
    \/ PH_CreateTemp
    \/ PH_WriteEntry
    \/ PH_CloseTemp
    \/ PC_Backup
    \/ SD_Validate
    \/ SD_Open
    \/ SD_Pass
    \/ SD_Rename
    \/ SD_Remove
    \/ PC_AfterErase
    \/ PH_Rename
    \/ Run_Return
    \/ Destructor
    \/ Main_Return
    \/ ShellAppends

SpecAppend == InitAppend /\ [][NextAppend]_vars

\* ---- the program is run again, with the same options and at the same clock
\* reading, on the file a completed mutating run left: a new process, whose
\* object is constructed as the first one was
RunAgain ==
    /\ proc = "exited" /\ exitCode = 0 /\ phRet = "true"
    /\ ~dryRun_ /\ invocation = 1
    /\ invocation' = 2
    /\ hist' = hist /\ hist0' = hist
    /\ startTimestamp_' = 0 /\ endTimestamp_' = 0
    /\ temp' = NoFile /\ backup' = NoFile /\ obscure' = NoFile
    /\ proc' = "running" /\ exitCode' = -1
    /\ interrupted_' = 0
    /\ tempFilePath_' = FALSE /\ backupFilePath_' = FALSE
    /\ historyIn' = [open |-> FALSE, rest |-> <<>>]
    /\ lineNum' = 0 /\ keptCount' = 0 /\ deletedCount' = 0
    /\ currentCommandBlock' = <<>> /\ keptEntries' = <<>>
    /\ output' = <<>> /\ reported' = <<>>
    /\ writeIdx' = 1 /\ tempOpen' = FALSE
    /\ sdPass' = 0 /\ sdAt' = "none" /\ bytesWritten' = 0 /\ sdRet' = "none"
    /\ phRet' = "none"
    /\ errs' = {}
    /\ handlers' = <<>> /\ inAllocator' = FALSE
    /\ flagWrites' = 0 /\ cleanupRuns' = 0
    /\ appended' = <<>> /\ grown' = 0
    /\ g_cleaner_instance' = TRUE /\ pc' = "calc"
    /\ UNCHANGED <<dryRun_, doBackup_, shredPasses_, filterKeywords_, filterRegexes_, mode_,
                   specificDateStr_, startDateStr_, endDateStr_, olderThanDays_, preciseTime_,
                   now, isInit, disposition>>

NextAgain ==
    \/ calculateTimestamps
    \/ PH_Open
    \/ PH_ScanLine
    \/ PH_LastBlock
    \/ PH_SetTempPath
    \/ PH_CreateTemp
    \/ PH_WriteEntry
    \/ PH_CloseTemp
    \/ PC_Backup
    \/ SD_Validate
    \/ SD_Open
    \/ SD_Pass
    \/ SD_Rename
    \/ SD_Remove
    \/ PC_AfterErase
    \/ PH_Rename
    \/ Run_Return
    \/ Destructor
    \/ Main_Return
    \/ RunAgain

SpecAgain == InitAgain /\ [][NextAgain]_vars

\* the run with the handler taken step by step
NextSignal ==
    \/ calculateTimestamps
    \/ PH_Open
    \/ PH_ScanLine
    \/ PH_LastBlock
    \/ PH_SetTempPath
    \/ PH_CreateTemp
    \/ PH_WriteEntry
    \/ PH_CloseTemp
    \/ PC_Backup
    \/ SD_Validate
    \/ SD_Open
    \/ SD_Pass
    \/ SD_Rename
    \/ SD_Remove
    \/ PC_AfterErase
    \/ PH_Rename
    \/ Run_Return
    \/ Destructor
    \/ Main_Return
    \/ Signal_Arrives
    \/ Handler_Enter
    \/ Handler_Cleanup
    \/ Handler_Reset
    \/ Handler_Raise
    \/ Handler_Return

SpecSignal == InitSignal /\ [][NextSignal]_vars


\* ================================================================ claims
\* What the claims speak of, stated on the bytes of the pre-run file and not
\* taken from the scan.

\* the lines of a file, each without its newline
RECURSIVE SplitLines(_)
SplitLines(data) ==
    IF data = <<>> THEN <<>>
    ELSE LET nls == {i \in 1..Len(data) : data[i] = "NL"}
             n   == IF nls = {} THEN Len(data) + 1
                    ELSE CHOOSE i \in nls : \A j \in nls : i <= j
         IN  <<SubSeq(data, 1, n - 1)>> \o SplitLines(SubSeq(data, n + 1, Len(data)))

\* a line as read: one trailing carriage return dropped
AsRead(l) == IF Len(l) > 0 /\ l[Len(l)] = "CR" THEN [i \in 1..(Len(l) - 1) |-> l[i]] ELSE l

RecordLines(data) == [i \in 1..Len(SplitLines(data)) |-> AsRead(SplitLines(data)[i])]

\* decide(record) = inWindow(timestamp) AND matches(commandText), on a header line
Decide(headerLine) ==
    LET k   == HeaderPos(headerLine)
        ts  == Stoll(headerLine[k])
        cmd == TrimLeft(SubSeq(headerLine, k + 1, Len(headerLine)))
    IN  /\ ~StollThrows(headerLine[k])
        /\ startTimestamp_ <= ts /\ ts <= endTimestamp_
        /\ \/ Len(filterKeywords_) = 0 /\ Len(filterRegexes_) = 0
           \/ \E kw \in {filterKeywords_[i] : i \in 1..Len(filterKeywords_)} : Contains(cmd, kw)
           \/ \E re \in {filterRegexes_[i] : i \in 1..Len(filterRegexes_)} :
                  regex_search(cmd, re)

\* the header line that owns line i: the last header line at or before i, 0 for preamble
Owner(L, i) ==
    LET hs == {j \in 1..i : historyEntryRegex_(L[j])}
    IN  IF hs = {} THEN 0 ELSE CHOOSE j \in hs : \A h \in hs : h <= j

KeptLine(L, i) == Owner(L, i) = 0 \/ ~Decide(L[Owner(L, i)])

\* the survivors: every line of a kept record and of the preamble, in order, each
\* followed by a newline
Survivors(data) ==
    LET L == RecordLines(data)
    IN  Concat([i \in 1..Len(L) |-> IF KeptLine(L, i) THEN L[i] \o <<"NL">> ELSE <<>>])

AllKept(data) == \A i \in 1..Len(RecordLines(data)) : KeptLine(RecordLines(data), i)

\* data without the bytes at the positions in drop
RECURSIVE Without(_, _, _)
Without(data, drop, i) ==
    IF i > Len(data) THEN <<>>
    ELSE (IF i \in drop THEN <<>> ELSE <<data[i]>>) \o Without(data, drop, i + 1)

\* every carriage return directly before a newline dropped
DropCRBeforeNL(data) ==
    Without(data, {i \in 1..Len(data) : data[i] = "CR" /\ i < Len(data) /\ data[i + 1] = "NL"}, 1)

\* every carriage return directly before a newline or at the end of the data
\* dropped, and a newline added to a last line that has none
Normalized(data) ==
    LET d == Without(data, {i \in 1..Len(data) :
                               data[i] = "CR" /\ (i = Len(data) \/ data[i + 1] = "NL")}, 1)
    IN  IF data # <<>> /\ data[Len(data)] # "NL" THEN d \o <<"NL">> ELSE d

Mutating == ~dryRun_
TempWritten == temp.kind = "regular" /\ ~tempOpen /\ temp.data = Survivors(hist0.data)
BackupDone == doBackup_ => backup = File(hist0.data)
OverwriteErrors == {"failed_open_file", "failed_seek", "write_failed", "incomplete_write"}

\* C1: in a mutating run, when secureDelete of the original reports failure,
\* processHistory aborts without renaming and the temp artifact with the survivors
\* is still on disk when the run ends.
C1_TempLeftAfterEraseFailure ==
    (Mutating /\ proc = "exited" /\ sdRet = "false" /\ Survivors(hist0.data) # <<>>)
        => (phRet = "false" /\ temp = File(Survivors(hist0.data)))

\* C2: when the erase succeeded and the rename of the temp artifact onto the original
\* path fails, the survivors still exist on disk under the temp artifact's name when
\* the run ends.
C2_SurvivorsLeftAfterRenameFailure ==
    (/\ Mutating /\ proc = "exited" /\ sdRet = "true" /\ "failed_rename_new_file" \in errs
     /\ Survivors(hist0.data) # <<>>)
        => temp = File(Survivors(hist0.data))

\* C3: for a non-empty regular file secureDelete returns success only if every one of
\* the passes wrote the full file length: after an open, seek, write or short-write
\* error it returns failure, whether or not the plain removal succeeded.
C3_SuccessOnlyAfterAllPasses ==
    (/\ sdRet = "true" /\ hist0.kind = "regular" /\ Len(hist0.data) > 0
     /\ "failed_get_size" \notin errs)
        => (/\ bytesWritten = shredPasses_ * Len(hist0.data)
            /\ errs \cap OverwriteErrors = {})

\* C4: the commit steps happen in order, none starting before the earlier ones
\* finished: the temp artifact is created only after the input was read to its end
\* and the survivor list is complete; the backup copy is made only when the temp
\* artifact is fully written and closed; the original is overwritten or removed only
\* when the temp artifact is fully written and closed and the requested backup
\* exists; the temp artifact is renamed onto the original path only after the erase
\* reported success.
FinalRename == temp.kind # "none" /\ temp'.kind = "none" /\ hist' = temp /\ hist' # hist
C4_Step ==
    /\ (temp.kind = "none" /\ temp'.kind # "none")
          => (/\ reported # <<>> /\ ~historyIn.open
              /\ Concat(keptEntries) = Survivors(hist0.data))
    /\ (backup' # backup) => TempWritten
    /\ (hist' # hist /\ ~FinalRename) => (TempWritten /\ BackupDone)
    /\ FinalRename => (TempWritten /\ BackupDone /\ sdRet = "true" /\ hist.kind = "none")
C4_CommitOrder == [][C4_Step]_vars

C4_Witness ==
    /\ Mutating /\ doBackup_ /\ phRet = "true" /\ proc = "exited"
    /\ backup = File(hist0.data)
    /\ bytesWritten = shredPasses_ * Len(hist0.data) /\ shredPasses_ = 2
    /\ hist = File(Survivors(hist0.data)) /\ hist # hist0 /\ hist.data # <<>>

\* C5, as claimed: when the requested backup copy fails the run aborts as failed,
\* secureDelete is never invoked, the original is byte-identical to its pre-run
\* content and the temp artifact is removed.
C5_BackupFailureDiscardsTemp ==
    ("failed_create_backup" \in errs)
        => (/\ phRet = "false" /\ (proc = "exited" => exitCode = 1)
            /\ sdRet = "none" /\ bytesWritten = 0
            /\ pc \in {"ph_ret"}
            /\ hist = hist0
            /\ temp.kind = "none")

\* C5, amended: when the requested backup copy fails the run aborts as failed,
\* secureDelete is never invoked, the original is byte-identical to its pre-run
\* content, and the temp artifact is removed unless its removal itself fails, in
\* which case a warning is printed and the artifact stays on disk.
C5_BackupFailureAborts ==
    ("failed_create_backup" \in errs)
        => (/\ phRet = "false" /\ (proc = "exited" => exitCode = 1)
            /\ sdRet = "none" /\ bytesWritten = 0
            /\ pc \in {"ph_ret"}
            /\ hist = hist0
            /\ (temp.kind = "none" \/ "warn_remove_temp" \in errs)
            /\ (temp.kind = "none" => "warn_remove_temp" \notin errs))

C5_Witness ==
    /\ "failed_create_backup" \in errs /\ proc = "exited" /\ doBackup_
    /\ temp.kind = "none" /\ hist0.data # <<>> /\ Survivors(hist0.data) # <<>>

\* C6: in dry-run mode, with every mode, filter set and backup flag, the source file
\* is byte-identical to its pre-run content in every state, no temp artifact and no
\* backup file is ever created, and secureDelete and rename are never called.
C6_DryRunMutatesNothing ==
    dryRun_ => (/\ hist = hist0
                /\ temp = NoFile /\ backup = NoFile /\ obscure = NoFile
                /\ ~tempFilePath_ /\ ~backupFilePath_
                /\ sdRet = "none" /\ bytesWritten = 0
                /\ pc \in {"calc", "ph_start", "ph_scan", "ph_last", "ph_ret", "dtor", "main_ret"})

C6_Witness ==
    /\ dryRun_ /\ doBackup_ /\ proc = "exited" /\ exitCode = 0
    /\ Len(reported) = 3 /\ reported[3] > 0 /\ reported[2] > 0 /\ output # <<>>

\* C7: a termination signal delivered while the input is still being scanned, before
\* the temp artifact is created, leaves the original byte-identical to its pre-run
\* content and leaves no temp artifact on disk.
C7_SignalDuringScan ==
    (proc = "killed" /\ pc \in {"calc", "ph_start", "ph_scan", "ph_last", "ph_temppath",
                                "ph_create"})
        => (hist = hist0 /\ temp = NoFile /\ interrupted_ = 1)

C7_Witness ==
    /\ proc = "killed" /\ pc = "ph_scan" /\ Mutating
    /\ lineNum = 1 /\ Len(SplitLines(hist0.data)) = 2 /\ hist = hist0


\* the failures that precede the first overwritten byte
BeforeEraseErrors == {"cannot_open_history", "error_reading_history", "cannot_create_new_file",
                      "failed_write_new_file", "failed_create_backup", "failed_check_status"}
NoOverwriteErrors == {"failed_get_size", "failed_open_file"}

\* C8: any I/O failure before the first byte of the original has been overwritten
\* (the source cannot be opened or read, the temp artifact cannot be created or
\* written, the backup copy fails, secureDelete cannot stat, size or open the
\* original) aborts the operation with the original still present and
\* byte-identical to its pre-run content.
C8_EarlyFailureKeepsOriginal ==
    (proc = "exited" /\ errs \cap (BeforeEraseErrors \cup NoOverwriteErrors) # {})
        => (phRet = "false" /\ exitCode = 1 /\ hist = hist0)

\* C9: after a mutating run that completes, the file at the original path consists
\* of exactly the kept records (every record for which decide is false, the preamble
\* and the malformed blocks) in their original order, each line as read and ended by
\* a newline; no line of a deleted record is in it and no temp artifact remains.
C9_CompletedRunLeavesSurvivors ==
    (Mutating /\ phRet = "true")
        => (hist = File(Survivors(hist0.data)) /\ temp = NoFile /\ ~tempFilePath_)

C9_Witness ==
    /\ Mutating /\ phRet = "true" /\ proc = "exited" /\ exitCode = 0
    /\ Len(reported) = 3 /\ reported[2] > 0 /\ reported[3] > 0
    /\ hist.data # <<>> /\ hist.data # hist0.data

\* C10, as claimed: when every record is kept the post-run file equals the pre-run
\* file byte for byte, apart from a carriage return directly before a newline being
\* dropped, also for an input whose last line has no terminating newline.
C10_IdentityWhenAllKept ==
    (Mutating /\ phRet = "true" /\ AllKept(hist0.data))
        => hist.data = DropCRBeforeNL(hist0.data)

\* C10, amended: when every record is kept the post-run file equals the pre-run
\* file byte for byte, apart from a carriage return directly before a newline or at
\* the end of the file being dropped and a newline being added after a last line
\* that has none.
C10_NormalizedWhenAllKept ==
    (Mutating /\ phRet = "true" /\ AllKept(hist0.data))
        => hist.data = Normalized(hist0.data)

C10_Witness ==
    /\ Mutating /\ phRet = "true" /\ proc = "exited" /\ AllKept(hist0.data)
    /\ Len(reported) = 3 /\ reported[2] = 2 /\ reported[3] = 0
    /\ \E i \in 1..(Len(hist0.data) - 1) : hist0.data[i] = "CR" /\ hist0.data[i + 1] = "NL"
    /\ hist.data # hist0.data


\* ---------------------------------------------------------------- scan claims
\* the scan reached the end of input and printed its report
ScanEnded == reported # <<>>
ReportedKept == reported[2]
ReportedDeleted == reported[3]

\* the header lines and the lines before the first header line of a file
HeaderLines(data) ==
    {i \in 1..Len(RecordLines(data)) : historyEntryRegex_(RecordLines(data)[i])}
PreambleLines(data) ==
    {i \in 1..Len(RecordLines(data)) : Owner(RecordLines(data), i) = 0}
\* the records of a file: one per header line, and one for the preamble if any
RecordCount(data) ==
    Cardinality(HeaderLines(data)) + (IF PreambleLines(data) = {} THEN 0 ELSE 1)

\* C11 as stated: at the end of the scan, kept + deleted is the number of records
\* of the file, the preamble being one record
C11_CountsAddUpToRecords ==
    ScanEnded => ReportedKept + ReportedDeleted = RecordCount(hist0.data)

\* C11 amended: at the end of the scan every header line is counted once, as
\* deleted when the decision holds of it and as kept otherwise, and every line
\* before the first header line is counted once as kept
C11_CountsAddUpToEntries ==
    ScanEnded =>
        LET L == RecordLines(hist0.data)
            H == HeaderLines(hist0.data)
        IN  /\ ReportedDeleted = Cardinality({j \in H : Decide(L[j])})
            /\ ReportedKept = Cardinality({j \in H : ~Decide(L[j])})
                                + Cardinality(PreambleLines(hist0.data))

C11_Witness ==
    /\ ScanEnded
    /\ Cardinality(PreambleLines(hist0.data)) >= 2
    /\ ReportedDeleted >= 1

\* the elements of a sequence
Range(q) == {q[i] : i \in 1..Len(q)}

\* the record that starts at header line j of the lines L: its lines, each with
\* its newline
BlockOf(L, j) ==
    Concat([i \in 1..Len(L) |-> IF i >= j /\ Owner(L, i) = j THEN L[i] \o <<"NL">> ELSE <<>>])

\* the header lines whose timestamp digits overflow
OverflowHeaders(data) ==
    {j \in HeaderLines(data) :
        StollThrows(RecordLines(data)[j][HeaderPos(RecordLines(data)[j])])}

\* the survivors are planned, none is written yet
PlanComplete == ScanEnded /\ ~dryRun_ /\ Running("ph_temppath")
\* the temp artifact is written and closed
TempClosed == ~dryRun_ /\ Running("pc_start")

\* C12: a record whose header's timestamp overflows is counted as kept and not as
\* deleted, is never reported as to delete, and is planned and written with all
\* its lines, in every mode and with every filter set
C12_MalformedKept ==
    LET L == RecordLines(hist0.data)
        M == OverflowHeaders(hist0.data)
        H == HeaderLines(hist0.data)
    IN  /\ ScanEnded => /\ ReportedDeleted <= Cardinality(H \ M)
                        /\ ReportedKept >= Cardinality(M)
        /\ \A o \in Range(output) : \A j \in M : o.block # BlockOf(L, j)
        /\ PlanComplete => \A j \in M : BlockOf(L, j) \in Range(keptEntries)
        /\ TempClosed => \A j \in M : Contains(temp.data, BlockOf(L, j))

C12_Witness ==
    /\ TempClosed
    /\ mode_ = "ALL_TIME" /\ filterKeywords_ = <<>> /\ filterRegexes_ = <<>>
    /\ OverflowHeaders(hist0.data) # {}
    /\ ReportedDeleted >= 1

\* the lines before the first header line, each with its newline, as entries
PreambleEntries(data) ==
    [i \in 1..Cardinality(PreambleLines(data)) |-> RecordLines(data)[i] \o <<"NL">>]

\* s begins with p
StartsWith(s, p) == Len(p) <= Len(s) /\ SubSeq(s, 1, Len(p)) = p

\* C13: whatever the mode and the filters, the lines before the first header
\* line are entries of their own at the start of the plan, in order, and are the
\* start of the temp artifact and of the file a completed run leaves; they are
\* counted as kept and no block reported as to delete ends among them
C13_PreambleKept ==
    LET P == PreambleEntries(hist0.data)
    IN  /\ ScanEnded => ReportedKept >= Len(P)
        /\ \A o \in Range(output) : o.lineNum > Len(P)
        /\ PlanComplete => StartsWith(keptEntries, P)
        /\ TempClosed => StartsWith(temp.data, Concat(P))
        /\ (Mutating /\ phRet = "true") => StartsWith(hist.data, Concat(P))

C13_Witness ==
    /\ Mutating /\ phRet = "true" /\ proc = "exited" /\ exitCode = 0
    /\ mode_ = "ALL_TIME" /\ filterKeywords_ = <<>>
    /\ PreambleEntries(hist0.data) # <<>> /\ Concat(PreambleEntries(hist0.data)) # <<"NL">>
    /\ ReportedDeleted >= 1
    /\ hist.data = Concat(PreambleEntries(hist0.data))

\* the preamble lines and the lines of the records with an overflowing header,
\* each with its newline
PreambleAndMalformed(data) ==
    LET L == RecordLines(data)
    IN  Concat([i \in 1..Len(L) |->
                  IF Owner(L, i) = 0 \/ Owner(L, i) \in OverflowHeaders(data)
                  THEN L[i] \o <<"NL">> ELSE <<>>])
\* the lines of the other records
WellFormedRecords(data) ==
    LET L == RecordLines(data)
    IN  Concat([i \in 1..Len(L) |->
                  IF Owner(L, i) # 0 /\ Owner(L, i) \notin OverflowHeaders(data)
                  THEN L[i] \o <<"NL">> ELSE <<>>])

NoFilters == filterKeywords_ = <<>> /\ filterRegexes_ = <<>>

\* C14: in ALL_TIME mode without keywords and patterns every record with a
\* well-formed header is deleted: the plan, the temp artifact and the file of a
\* completed run hold the preamble lines and the malformed blocks and nothing
\* else, a dry run reports every other record, and the counts say the same
C14_AllTimeDeletesWellFormed ==
    (mode_ = "ALL_TIME" /\ NoFilters) =>
        LET H == HeaderLines(hist0.data)
            M == OverflowHeaders(hist0.data)
        IN  /\ ScanEnded =>
                /\ ReportedDeleted = Cardinality(H \ M)
                /\ ReportedKept = Cardinality(M) + Cardinality(PreambleLines(hist0.data))
                /\ dryRun_ =>
                      Concat([i \in 1..Len(output) |-> output[i].block])
                          = WellFormedRecords(hist0.data)
            /\ PlanComplete => Concat(keptEntries) = PreambleAndMalformed(hist0.data)
            /\ TempClosed => temp.data = PreambleAndMalformed(hist0.data)
            /\ (Mutating /\ phRet = "true") => hist.data = PreambleAndMalformed(hist0.data)

C14_Witness ==
    /\ mode_ = "ALL_TIME" /\ NoFilters
    /\ Mutating /\ phRet = "true" /\ proc = "exited"
    /\ hist0.data = <<"h1", "NL", "hBig">>
    /\ hist.data = <<"hBig", "NL">>

\* -------------------------------------------------------------- filter claims
\* inWindow(ts) = start <= ts <= end
inWindow(ts) == startTimestamp_ <= ts /\ ts <= endTimestamp_

\* matches(commandText): true when both lists are empty, otherwise when some
\* keyword is a substring of the text or some pattern search-matches it
matches(commandText) ==
    IF filterKeywords_ = <<>> /\ filterRegexes_ = <<>> THEN TRUE
    ELSE \/ \E kw \in Range(filterKeywords_) : Contains(commandText, kw)
         \/ \E re \in Range(filterRegexes_) : regex_search(commandText, re)

\* the same with the patterns looked at first, the keywords only when none matched
matches_PatternsFirst(commandText) ==
    IF filterKeywords_ = <<>> /\ filterRegexes_ = <<>> THEN TRUE
    ELSE IF \E re \in Range(filterRegexes_) : regex_search(commandText, re) THEN TRUE
    ELSE \E kw \in Range(filterKeywords_) : Contains(commandText, kw)

\* the header atom and the command text of a header line: what follows the
\* header's ';', leading blanks dropped
HeaderAtom(headerLine) == headerLine[HeaderPos(headerLine)]
commandText(headerLine) ==
    TrimLeft(SubSeq(headerLine, HeaderPos(headerLine) + 1, Len(headerLine)))

\* the last line of the record that starts at header line j
LastLine(L, j) == CHOOSE i \in j..Len(L) : Owner(L, i) = j /\ \A k \in (i + 1)..Len(L) : Owner(L, k) # j

\* the well-formed records for which inWindow AND matches holds
ToDelete(data) ==
    {j \in HeaderLines(data) \ OverflowHeaders(data) :
        /\ inWindow(Stoll(HeaderAtom(RecordLines(data)[j])))
        /\ matches(commandText(RecordLines(data)[j]))}

ContinuationLines(L, j) == {i \in (j + 1)..Len(L) : Owner(L, i) = j}

\* a keyword or a pattern occurs in a continuation line of record j and matches
\* does not hold of the command text of its header line
OnlyInContinuation(L, j) ==
    /\ ~matches(commandText(L[j]))
    /\ \E i \in ContinuationLines(L, j) : matches(L[i])

\* C16: a record whose keyword or pattern occurs only in a continuation line is
\* not deleted, and records are deleted and kept whole: every block reported as
\* to delete and every planned entry after the preamble is a header line with all
\* its continuation lines
C16_FiltersSeeHeaderLineOnly ==
    LET L == RecordLines(hist0.data)
        H == HeaderLines(hist0.data)
        P == PreambleEntries(hist0.data)
    IN  /\ (ScanEnded /\ dryRun_) =>
              \A j \in H : OnlyInContinuation(L, j) =>
                  ~\E o \in Range(output) : o.lineNum = LastLine(L, j)
        /\ PlanComplete =>
              \A j \in H : OnlyInContinuation(L, j) => BlockOf(L, j) \in Range(keptEntries)
        /\ \A o \in Range(output) :
              \E j \in H : o.block = BlockOf(L, j) /\ o.lineNum = LastLine(L, j)
        /\ PlanComplete =>
              \A n \in (Len(P) + 1)..Len(keptEntries) :
                  \E j \in H : keptEntries[n] = BlockOf(L, j)

C16_Witness ==
    /\ PlanComplete
    /\ filterKeywords_ = << <<"x">> >> /\ filterRegexes_ = <<>>
    /\ hist0.data = <<"h1", "NL", "x">>
    /\ ReportedKept = 1 /\ ReportedDeleted = 0
    /\ keptEntries = << <<"h1", "NL", "x", "NL">> >>

\* -------------------------------------------------------------- window claims
\* the scan of a file of one record with header atom a has ended
ScannedRecord(a) == ScanEnded /\ hist0.data = <<a, "NL">>
RecordDeleted == ReportedDeleted = 1 /\ ReportedKept = 0
RecordKept == ReportedDeleted = 0 /\ ReportedKept = 1
\* the date was given without a time of day
DateAlone == specificDateStr_.sec < 0

\* C17 as stated, for a date D given without a time of day: in SPECIFIC_DAY mode
\* without --precise and without filters the record at local midnight of D and
\* the record at 23:59:59 of D are deleted, the record at local midnight of D+1
\* is kept
C17_SpecificDayIsWholeDay ==
    (mode_ = "SPECIFIC_DAY" /\ ~preciseTime_ /\ NoFilters /\ DateAlone) =>
        /\ ScannedRecord("hMid") => RecordDeleted
        /\ ScannedRecord("hEod") => RecordDeleted
        /\ ScannedRecord("hNext") => RecordKept

C19_PreciseBeforeIsStrict ==
    (mode_ = "BEFORE" /\ preciseTime_ /\ NoFilters) =>
        /\ ScanEnded =>
              /\ startTimestamp_ = 0
              /\ endTimestamp_ = dateToEpoch(specificDateStr_, preciseTime_).epoch - 1
        /\ ScannedRecord("hAt") => RecordKept

\* --------------------------------------------------------------- erase claims
\* the messages of the failures inside secureDelete
EraseErrors == OverwriteErrors \cup {"failed_check_status", "failed_get_size",
                                      "failed_delete_file"}

\* C20: secureDelete on a regular file of N > 0 bytes with p >= 1 passes and no
\* failure writes N bytes in every pass, from the first byte to the last, p x N
\* bytes when it returns; it returns true, and then neither the original path nor
\* the random sibling path exists
C20_PassesCoverFile ==
    LET N == Len(hist0.data)
    IN  (hist0.kind = "regular" /\ N > 0 /\ shredPasses_ >= 1 /\ errs \cap EraseErrors = {}) =>
            /\ Running("sd_pass") =>
                  /\ bytesWritten = (sdPass - 1) * N
                  /\ sdPass > 1 => hist.data = Garbage(N)
            /\ Running("sd_ret") =>
                  /\ bytesWritten = shredPasses_ * N
                  /\ sdRet = "true"
                  /\ hist = NoFile /\ obscure = NoFile

C20_Witness ==
    /\ Running("sd_ret") /\ sdRet = "true" /\ errs = {}
    /\ shredPasses_ = 2
    /\ Len(hist0.data) = 2 * SHRED_BUFFER_SIZE + 1
    /\ bytesWritten = 4 * SHRED_BUFFER_SIZE + 2
    /\ sdAt = "obscurePath" /\ hist = NoFile /\ obscure = NoFile
\* ---------------------------------------------------------------- C21
NotRegularKinds == {"symlink", "dangling", "directory", "special"}

\* C21: secureDelete on a path that is not a regular file (a symbolic link, a
\* directory, a special file) writes no overwrite byte and falls back to a plain
\* remove that is not reported as a failure: it returns false only when the
\* path is still in place; on a regular file of no byte it writes nothing and
\* removes the file
C21_NotRegularIsPlainRemove ==
    (pc = "sd_ret" /\ (hist0.kind \in NotRegularKinds \/ hist0 = File(<<>>)))
        => /\ bytesWritten = 0
           /\ hist \in {hist0, NoFile}
           /\ obscure = NoFile
           /\ (sdRet = "false") => (hist = hist0)
           /\ (sdRet = "true") => (hist = NoFile)

\* ---------------------------------------------------------------- C22
\* what the poll points print: processHistory lines 1042 and 1060,
\* performCleanup line 1207
PollMessages == {"interrupted_before_processing", "interrupted_during_processing",
                 "interrupted_before_cleanup"}

\* the error exit of a run whose processHistory failed, as after an I/O failure
FailedExit == proc = "exited" /\ exitCode = 1 /\ "failed_to_process" \in errs

\* C22: when a poll point (in the scan loop, before the commit, around the
\* backup) has observed the cancellation flag, the run ends with an outcome of
\* its own, not through the error exit that reports a failed run
C22_InterruptedIsNotFailed ==
    (proc = "exited" /\ errs \cap PollMessages # {}) => ~FailedExit

\* ---------------------------------------------------------------- C23
\* C23: once the handler has started with an instance registered and set the
\* flag, the main thread takes no further step (its position and the files it
\* works on stay as they are; only the handler's cleanup touches the temp
\* artifact) and the handler runs through to the re-raise that ends the
\* process: the process neither resumes nor hangs
C23_HandlerEndsTheRun ==
    [][(interrupted_ = 1)
          => /\ pc' = pc /\ hist' = hist /\ backup' = backup /\ obscure' = obscure
             /\ proc' \in {"handler", "killed"}]_vars

\* ---------------------------------------------------------------- C24
\* C24: the flag is written once per process and the first signal wins: a
\* second termination signal never enters the handler body or the cleanup a
\* second time
C24_FirstSignalWins == flagWrites <= 1 /\ cleanupRuns <= 1

\* ---------------------------------------------------------------- C25
\* C25: the cleanup in the handler uses async-signal-safe operations only, so
\* a handler that interrupted the main thread inside the allocator or a stream
\* operation never blocks
C25_HandlerNeverBlocks == inAllocator => proc # "hung"

\* ---------------------------------------------------------------- C26
\* a date string that some format matches, with a time when one is required
Parses(dateStr) == dateStr.day >= 0 /\ (preciseTime_ => dateStr.sec >= 0)

\* a mode is selected and the dates it reads can be parsed
Derivable ==
    /\ mode_ # "NONE"
    /\ mode_ \in {"SPECIFIC_DAY", "BEFORE", "AFTER"} => Parses(specificDateStr_)
    /\ mode_ = "BETWEEN" => (Parses(startDateStr_) /\ Parses(endDateStr_))

\* nothing on disk has changed and the history file was never opened
Untouched ==
    /\ hist = hist0 /\ temp = NoFile /\ backup = NoFile /\ obscure = NoFile
    /\ ~tempFilePath_ /\ ~backupFilePath_
    /\ ~historyIn.open /\ lineNum = 0 /\ reported = <<>>

NextLine == StripCR(GetLine(historyIn.rest).line)

\* a line of the header grammar whose timestamp digits overflow
OverflowLine(line) == HeaderPos(line) # 0 /\ StollThrows(line[HeaderPos(line)])

\* the step is an iteration of the read loop that reads such a line
ReadsOverflowLine ==
    /\ Running("ph_scan") /\ historyIn.rest # <<>>
    /\ OverflowLine(NextLine)
    /\ lineNum' = lineNum + 1

\* C27 as stated: a line of the header grammar whose timestamp digits overflow
\* is a continuation line of the current record: it is appended to it, and the
\* record before it is not flushed
C27_OverflowIsContinuation ==
    [][(ReadsOverflowLine /\ currentCommandBlock # <<>>)
          => /\ currentCommandBlock' = currentCommandBlock \o NextLine \o <<"NL">>
             /\ keptCount' = keptCount /\ deletedCount' = deletedCount
             /\ keptEntries' = keptEntries]_vars

\* C27 amended: such a line starts a new record like any header line: the
\* accumulator restarts with it, and the record before it is flushed, counted
\* once as deleted or as kept and in the latter case planned for the output
C27_OverflowStartsRecord ==
    [][ReadsOverflowLine
          => /\ currentCommandBlock' = NextLine \o <<"NL">>
             /\ currentCommandBlock # <<>>
                  => \/ /\ deletedCount' = deletedCount + 1 /\ keptCount' = keptCount
                        /\ keptEntries' = keptEntries
                     \/ /\ keptCount' = keptCount + 1 /\ deletedCount' = deletedCount
                        /\ keptEntries' = IF dryRun_ THEN keptEntries
                                          ELSE Append(keptEntries, currentCommandBlock)
             /\ currentCommandBlock = <<>>
                  => UNCHANGED <<keptCount, deletedCount, keptEntries>>]_vars

\* an overflowing header has been read after a record that was flushed as deleted
C27_Witness ==
    /\ Running("ph_scan")
    /\ currentCommandBlock = <<"hBig", "NL">>
    /\ deletedCount = 1 /\ lineNum = 2

\* ---------------------------------------------------------------- C28
\* C28 as stated: the lines before the first header are one preamble record:
\* at the end of the scan they have added one to the kept count, however many
\* they are
C28_PreambleCountsOnce ==
    ScanEnded =>
        LET L == RecordLines(hist0.data)
            H == HeaderLines(hist0.data)
        IN  ReportedKept = Cardinality({j \in H : ~Decide(L[j])})
                            + (IF PreambleLines(hist0.data) = {} THEN 0 ELSE 1)

\* the step is an iteration of the read loop that reads a line before the first
\* header: not of the header grammar, with no record begun
ReadsPreambleLine ==
    /\ Running("ph_scan") /\ historyIn.rest # <<>>
    /\ HeaderPos(NextLine) = 0 /\ currentCommandBlock = <<>>
    /\ lineNum' = lineNum + 1

\* C28 amended: every line before the first header is kept as an entry of its
\* own: it adds one to the kept count and, in a mutating run, one entry to the
\* planned output, and no record is begun
C28_EachPreambleLineCounts ==
    [][ReadsPreambleLine
          => /\ keptCount' = keptCount + 1 /\ deletedCount' = deletedCount
             /\ keptEntries' = IF dryRun_ THEN keptEntries
                               ELSE Append(keptEntries, NextLine \o <<"NL">>)
             /\ currentCommandBlock' = <<>>]_vars

\* a file of three lines and no header, reported as three kept entries
C28_Witness ==
    /\ ScanEnded
    /\ HeaderLines(hist0.data) = {}
    /\ Cardinality(PreambleLines(hist0.data)) = 3
    /\ ReportedKept = 3

\* ---------------------------------------------------------------- C29
\* processHistory has not yet reached the creation of the temp artifact
BeforeCreate == pc \in {"calc", "ph_start", "ph_scan", "ph_last", "ph_temppath", "ph_create"}
\* processHistory has returned
Returned == pc \in {"ph_ret", "dtor", "main_ret"}

\* C29 as stated: in a mutating run the temp artifact is on disk only while its
\* path is registered in tempFilePath_ and only after the one step that
\* creates it, and once processHistory has returned, with any result, it is
\* not on disk
C29_TempOnlyWhileRegistered ==
    ~dryRun_ =>
        /\ temp.kind # "none" => (tempFilePath_ /\ ~BeforeCreate)
        /\ Returned => temp.kind = "none"

\* the removal of the temp artifact failed and the warning was printed
RemovalFailed == "warn_remove_temp" \in errs

\* C29 amended: the same, unless a cleanup failed to remove the temp artifact:
\* it then stays on disk, unregistered, with a warning
C29_TempRegisteredOrWarned ==
    ~dryRun_ =>
        /\ temp.kind # "none" => ((tempFilePath_ \/ RemovalFailed) /\ ~BeforeCreate)
        /\ Returned => (temp.kind = "none" \/ RemovalFailed)

\* processHistory has returned false after a cleanup that removed the temp
\* artifact the run had written
C29_Witness ==
    /\ Running("ph_ret") /\ phRet = "false"
    /\ "secure_delete_failed" \in errs
    /\ temp = NoFile /\ ~tempFilePath_ /\ ~RemovalFailed

\* ---------------------------------------------------------------- C30
\* the window has been derived
WindowSet == pc \notin {"args", "calc"}

\* t is n whole days before now
DaysBeforeNow(t, n) == (now - t) % Day = 0 /\ (now - t) \div Day = n

\* C30: for every positive day count n that the command line accepts, the
\* window of older_than is [0, now - n * 86400] and the window of newer_than is
\* [now - n * 86400, max], the product taken without overflow or wrap-around
C30_DayWindowsExact ==
    (WindowSet /\ olderThanDays_ > 0)
        => /\ mode_ = "OLDER_THAN"
                => (startTimestamp_ = 0 /\ DaysBeforeNow(endTimestamp_, olderThanDays_))
           /\ mode_ = "NEWER_THAN"
                => (DaysBeforeNow(startTimestamp_, olderThanDays_) /\ endTimestamp_ = TIME_MAX)

\* ---------------------------------------------------------------- C31
\* the first and the last second of the local calendar day of a date string
StartOfDay(dateStr) == LocalInstant(dateStr.day, 0)
EndOfDay(dateStr) == LocalInstant(dateStr.day, Day - 1)

\* C31: without --precise the window of between is [local start of day of s,
\* local 23:59:59 of e] for every date s and e that dateToEpoch accepts, with or
\* without a time of day, and the window of specific_day starts at the local
\* start of its day
C31_WindowSnapsToDays ==
    (WindowSet /\ ~preciseTime_)
        => /\ mode_ = "BETWEEN"
                => /\ startTimestamp_ = StartOfDay(startDateStr_)
                   /\ endTimestamp_ = EndOfDay(endDateStr_)
           /\ mode_ = "SPECIFIC_DAY"
                => startTimestamp_ = StartOfDay(specificDateStr_)

\* ---------------------------------------------------------------- C32
\* secureDelete has returned from a regular file of at least one byte
ErasedRegular == pc = "sd_ret" /\ hist0.kind = "regular" /\ Len(hist0.data) > 0
SyncFailed == "warn_fsync_failed" \in errs
RenameFailed == sdAt = "filepath"

\* C32: in secureDelete a failed sync after a pass and a failed rename to the
\* random name do not make the erase fail: when nothing else failed every pass
\* has written the whole file and true is returned; a false return carries the
\* message of another failure; after a failed rename the remove is given the
\* original name, and true is returned exactly when the file is gone
C32_SyncAndRenameAreBestEffort ==
    ErasedRegular =>
        /\ (errs \cap EraseErrors = {}) =>
                /\ sdRet = "true"
                /\ bytesWritten = shredPasses_ * Len(hist0.data)
        /\ (sdRet = "false") => (errs \cap EraseErrors # {})
        /\ (sdRet = "true") => (hist = NoFile /\ obscure = NoFile)
        /\ RenameFailed =>
                /\ obscure = NoFile
                /\ (sdRet = "true") <=> ("failed_delete_file" \notin errs)
                /\ (sdRet = "false") => (hist.kind = "regular")

C32_Witness ==
    /\ ErasedRegular /\ SyncFailed /\ RenameFailed
    /\ shredPasses_ = 2 /\ Len(hist0.data) = MaxLen
    /\ errs = {"warn_fsync_failed"}
    /\ bytesWritten = 2 * MaxLen
    /\ sdRet = "true" /\ hist = NoFile

\* ---------------------------------------------------------------- C33
\* a file that holds the complete survivor records of the run
HoldsSurvivors(f) == f.kind = "regular" /\ f.data = Survivors(hist0.data)

\* C33: in a mutating run without backup that has survivor records, in every
\* state, the survivor records are complete on disk in the untouched original,
\* in the temp artifact or in the renamed final file
C33_SurvivorsAlwaysOnDisk ==
    (Mutating /\ ~doBackup_ /\ hist0.kind = "regular" /\ Survivors(hist0.data) # <<>>)
        => \/ hist = hist0
           \/ HoldsSurvivors(temp)
           \/ HoldsSurvivors(hist)

\* ---------------------------------------------------------------- C34
\* backupHistoryFile returned true: the path of the backup is set
BackupMade == backupFilePath_

\* C34: once the backup copy has succeeded the backup file holds the pre-run
\* bytes of the original, and no later step, cleanup, failure or signal
\* handler among them, removes or changes it
C34_BackupStays ==
    [][BackupMade => (backup = File(hist0.data) /\ backup' = backup /\ BackupMade')]_vars

C34_Witness ==
    /\ BackupMade /\ backup = File(hist0.data)
    /\ cleanupRuns = 1 /\ proc = "killed"
    /\ hist # hist0 /\ temp = NoFile

\* ---------------------------------------------------------------- C35
\* the bytes of a file end with the bytes q
EndsWith(f, q) ==
    /\ f.kind = "regular" /\ Len(f.data) >= Len(q)
    /\ SubSeq(f.data, Len(f.data) - Len(q) + 1, Len(f.data)) = q

\* C35: a record that another process appended to the history file after the
\* scan met the end of the input and before the commit ended is in the file
\* the completed run leaves
C35_AppendedRecordSurvives ==
    (Mutating /\ phRet = "true" /\ appended # <<>>) => EndsWith(hist, appended)

\* ---------------------------------------------------------------- C36
\* C36: a mutating clean of the file that a completed mutating clean left, with
\* the same window and filters, deletes no record and leaves the file
\* byte-identical
C36_SecondCleanChangesNothing ==
    (invocation = 2 /\ phRet = "true") => (ReportedDeleted = 0 /\ hist = hist0)

\* ---------------------------------------------------------------- C37
\* C37: newer_than without a positive --days is rejected by the validation of
\* the command line, as older_than is, before anything is processed; when the
\* window of newer_than is derived the day count is at least 1
C37_NewerThanNeedsDays ==
    (mode_ = "NEWER_THAN" /\ olderThanDays_ < 1 /\ pc # "args")
        => /\ proc = "exited" /\ exitCode = 1
           /\ ~WindowSet
           /\ Untouched

\* ---------------------------------------------------------------- C38
\* a handler is on the stack and no instance is registered: the signal arrived
\* after the destructor
HandlerWithoutInstance == proc = "handler" /\ ~g_cleaner_instance

\* C38: a termination signal that arrives while no instance is registered,
\* after the destructor, ends the process at once with exit status 128 + the
\* signal number; the handler sets no flag, runs no cleanup and creates,
\* changes or removes no file
C38_NoInstanceForcesExit ==
    [][HandlerWithoutInstance
          => /\ UNCHANGED <<interrupted_, flagWrites, cleanupRuns, files, paths>>
             /\ \/ proc' = "handler"
                \/ proc' = "exited" /\ exitCode' = 128 + Top.signal]_vars

C38_Witness ==
    /\ proc = "exited" /\ exitCode = 128 + SIGTERM
    /\ ~g_cleaner_instance /\ pc = "main_ret"
    /\ phRet = "true" /\ hist = File(Survivors(hist0.data)) /\ hist # hist0
    /\ temp = NoFile
    /\ interrupted_ = 0 /\ flagWrites = 0 /\ cleanupRuns = 0

\* ---------------------------------------------------------------- C39
\* the record that starts at header line j, byte for byte: its lines as they
\* are in the file, each with its newline
RawBlockOf(data, j) ==
    LET L == RecordLines(data)
        R == SplitLines(data)
    IN  Concat([i \in 1..Len(R) |-> IF i >= j /\ Owner(L, i) = j THEN R[i] \o <<"NL">> ELSE <<>>])

\* the report of the record at header line j
ReportsOf(j) == {o \in 1..Len(output) : output[o].lineNum = LastLine(RecordLines(hist0.data), j)}

\* C39 as stated: a dry run reports each record it would delete with the bytes
\* of its lines
C39_ReportedVerbatim ==
    (dryRun_ /\ ScanEnded)
        => \A j \in ToDelete(hist0.data) :
              \E o \in ReportsOf(j) : output[o].block = RawBlockOf(hist0.data, j)

\* C39 amended: a dry run reports each record it would delete exactly once and
\* nothing else, in the order of the file, with all its lines as the scan read
\* them (a carriage return at the end of a line dropped, every line ended by a
\* newline), and the number in its marker is the 1-based number of the last
\* line of the record, for a record ended by a following header and for the
\* last record of the file
C39_ReportedOnceWithLastLine ==
    (dryRun_ /\ ScanEnded)
        => LET L == RecordLines(hist0.data)
               D == ToDelete(hist0.data)
           IN  /\ Len(output) = Cardinality(D)
               /\ \A j \in D :
                     /\ Cardinality(ReportsOf(j)) = 1
                     /\ \A o \in ReportsOf(j) : output[o].block = BlockOf(L, j)
               /\ \A o \in 1..(Len(output) - 1) : output[o].lineNum < output[o + 1].lineNum

\* two records of two lines each are reported, the first ended by the header
\* of the second, the second by the end of the file
C39_Witness ==
    /\ dryRun_ /\ ScanEnded
    /\ hist0.data = <<"h1", "NL", "x", "CR", "NL", "h1", "NL", "x">>
    /\ output = << [lineNum |-> 2, block |-> <<"h1", "NL", "x", "NL">>],
                   [lineNum |-> 4, block |-> <<"h1", "NL", "x", "NL">>] >>

============================================================================
